---- MODULE Spec2Model ----
(***************************************************************************)
(* EvolviConf: changelog expansion, the configuration linter and the       *)
(* dispatching parser.                                                     *)
(*                                                                         *)
(* The specifications of this module:                                      *)
(*   SpecLint    a changelog is expanded (Changelog.Expand, one addChange  *)
(*               call per step) into the linter's tree and paths are       *)
(*               linted against it (configLinter.findChange);              *)
(*   SpecExpand  a changelog whose keys may compare equal is expanded      *)
(*               twice;                                                    *)
(*   Spec        Parser.Parse runs over a stream of documents with a list  *)
(*               of registered versioned parsers;                          *)
(*   SpecLive    Spec with the loop of Parse running on;                   *)
(*   SpecReuse   Parse is called on one Parser twice in turn and then      *)
(*               twice at once;                                            *)
(*   SpecHooks   MultiDecoderHook composes hooks and the decoder calls     *)
(*               the result on the nodes of a document.                    *)
(*                                                                         *)
(* Strings that the code splits are sequences of one-character strings, so *)
(* strings.Split is computed and not assumed.  A semver version is the     *)
(* triple <<major, minor, patch>>.                                         *)
(***************************************************************************)
EXTENDS Integers, Sequences, FiniteSets, TLC

VARIABLES
    \* ---- construction of a linter (SpecLint)
    changelog,          \* Changelog: version -> sequence of Change
    versions,           \* Expand: the sorted semver.Collection
    knownChanges,       \* Expand: version -> field tree under construction
    step,               \* Expand: number of addChange calls made so far
    expandedChangelog,  \* configLinter.expandedChangelog
    lpc,                \* "new" | "expand" | "ready" | "off"
    lintVersion,        \* arguments and result of the last findChange call
    lintPath,
    lintTree,           \* the tree changelogForVersion resolved in that call
    lintResult,
    linted,
    prior,              \* what the Expand call before this one returned
    \* ---- one run of Parser.Parse (Spec)
    configParsers,      \* Parser.configParsers, in registration order
    latestVersion,      \* Parser.latestVersion
    stream,             \* the documents of the input, in order
    versionRead,        \* documents consumed by versionDecoder
    configRead,         \* documents consumed by configurationDecoder
    version,            \* Parse: the resolved version of the current document
    parser,             \* Parse: index of the chosen parser, 0 is nil
    perfectMatch,
    configs,            \* Parse: the accumulated configs
    warnings,           \* Parse: the accumulated warnings
    pc,                 \* "AwaitingVersion" | "FindParser" | "Decoding" | "Done" | "Fail" | "off"
    err,                \* the error Parse returns, "nil" if none
    retConfigs,         \* what Parse returned
    retWarnings,
    calls,              \* per document: the ParseVersionedConfig calls made
    blocks,             \* per document: the warnings Parse appended for it
    \* ---- several calls of Parse on one Parser (SpecReuse)
    todo,               \* the streams of the first and of the second call
    phase,              \* "first" | "second" | "both" | "off"
    active,             \* the call that is running, 1 or 2
    other,              \* the locals of the call that is not running
    solo,               \* what the calls that ran alone returned
    \* ---- sort.Slice
    sorter,             \* what sort.Slice made of the inputs it was given
    \* ---- a decode with a composed hook (SpecHooks)
    given,              \* the hooks passed to MultiDecoderHook, nil ones included
    composed,           \* what MultiDecoderHook returned
    hookDoc,            \* the nodes of the document, as the hooks left them
    visited,            \* the number of nodes the decoder has visited
    trace,              \* the calls of hooks made so far
    hpc                 \* "new" | "ready" | "off"

lintVars == <<changelog, versions, knownChanges, step, expandedChangelog, lpc,
              lintVersion, lintPath, lintTree, lintResult, linted, prior>>
parseVars == <<configParsers, latestVersion, stream, versionRead,
               configRead, version, parser, perfectMatch, configs, warnings, pc,
               err, retConfigs, retWarnings, calls, blocks>>
reuseVars == <<todo, phase, active, other, solo>>
hookVars == <<given, composed, hookDoc, visited, trace, hpc>>
vars == <<lintVars, parseVars, reuseVars, sorter, hookVars>>

----------------------------------------------------------------------------
(* Bounds of the model *)

\* the greatest number of changes a changelog declares, over all its versions
MaxChanges == 2
\* the greatest number of documents in one input stream
MaxDocs == 2
\* the greatest number of registered parsers
MaxParsers == 2

----------------------------------------------------------------------------
(* Versions (github.com/Masterminds/semver/v3) *)

Compare(v, w) ==
    IF v[1] # w[1] THEN (IF v[1] < w[1] THEN -1 ELSE 1)
    ELSE IF v[2] # w[2] THEN (IF v[2] < w[2] THEN -1 ELSE 1)
    ELSE IF v[3] # w[3] THEN (IF v[3] < w[3] THEN -1 ELSE 1)
    ELSE 0

GreaterThan(v, w) == Compare(v, w) = 1
LessThan(v, w) == Compare(v, w) = -1
Equal(v, w) == Compare(v, w) = 0
GreaterThanEqual(v, w) == Compare(v, w) >= 0

\* sort.Sort(versions): the ascending sequence of a set of distinct versions
RECURSIVE SortVersions(_)
SortVersions(S) ==
    IF S = {} THEN <<>>
    ELSE LET lo == CHOOSE v \in S : \A w \in S : ~GreaterThan(v, w)
         IN <<lo>> \o SortVersions(S \ {lo})

\* a fault of Expand: the keys are taken as the range over the map yields them
Unordered(o) == TRUE

\* a semver.Collection after sort.Sort: no version is less than one before it
IsSorted(o) == \A i, j \in DOMAIN o : i < j => ~LessThan(o[j], o[i])

\* Expand, the keys of the changelog appended in the order of the range over
\* the map and then sorted: keys that compare equal (two pointers to one
\* version, versions that differ in build metadata only) may come out either
\* way round
SortedCollections(S) ==
    {o \in [1..Cardinality(S) -> S] :
        /\ \A i, j \in DOMAIN o : o[i] = o[j] => i = j
        /\ IsSorted(o)}

----------------------------------------------------------------------------
(* Changes and changelogs *)

FieldDeprecated == 0
FieldIntroduced == 1

Dot == "."
Star == <<"*">>

\* strings.Split(s, "."): always at least one token, possibly empty
RECURSIVE Split(_)
Split(s) ==
    IF \A i \in 1..Len(s) : s[i] # Dot THEN <<s>>
    ELSE LET i == CHOOSE k \in 1..Len(s) :
                      s[k] = Dot /\ \A j \in 1..(k - 1) : s[j] # Dot
         IN <<SubSeq(s, 1, i - 1)>> \o Split(SubSeq(s, i + 1, Len(s)))

\* the zero values Change{} and a nil map[string]any
\* A message is kept as its text and the values formatted into it.
NoConstraint == [lo |-> 0, hi |-> 0]
MkMessage(text, ver, latest, constraint, idx) ==
    [text |-> text, ver |-> ver, latest |-> latest, constraint |-> constraint, idx |-> idx]
NoMessage == MkMessage("", <<0, 0, 0>>, <<0, 0, 0>>, NoConstraint, 0)
ZeroChange == [Field |-> <<>>, ChangeType |-> FieldDeprecated, Message |-> NoMessage]
EmptyMap == [t \in {} |-> FALSE]

\* a value of a field tree: a nested map[string]any or a Change
MapNode(m) == [isMap |-> TRUE, m |-> m, c |-> ZeroChange]
ChangeNode(c) == [isMap |-> FALSE, m |-> EmptyMap, c |-> c]

\* curMap[t] = x
MapSet(m, t, x) == [k \in DOMAIN m \cup {t} |-> IF k = t THEN x ELSE m[k]]


\* a fault of addChange: at the last token a sub-tree is not replaced
StoreLastUnlessMap(curMap, t, change) ==
    IF t \in DOMAIN curMap /\ curMap[t].isMap THEN curMap
    ELSE MapSet(curMap, t, ChangeNode(change))

\* addChange, last token: the change is stored whatever the map held there
StoreLast(curMap, t, change) == MapSet(curMap, t, ChangeNode(change))

\* a fault of addChange: a Change met on the way is taken for an empty map
AssertMapAlways(raw) == TRUE

\* addChange: curMap, ok = raw.(map[string]any)
AssertMap(raw) == raw.isMap

\* addChange: descend the tokens of change.Field from token i in curMap
RECURSIVE AddTokens(_, _, _, _)
AddTokens(tokens, i, change, curMap) ==
    LET t == tokens[i]
    IN IF i = Len(tokens) THEN StoreLast(curMap, t, change)
       ELSE IF t \notin DOMAIN curMap
            THEN MapSet(curMap, t, MapNode(AddTokens(tokens, i + 1, change, EmptyMap)))
       ELSE IF AssertMap(curMap[t])
            THEN MapSet(curMap, t, MapNode(AddTokens(tokens, i + 1, change, curMap[t].m)))
       ELSE curMap

addChange(change, m) == AddTokens(Split(change.Field), 1, change, m)

\* faults of the switch of Expand: the comparison of the first case turned
\* round, the first case taken for the declaring version alone, the comparison
\* of the second case turned round
DeprecatedVisibleInverted(v, v2) == ~LessThan(v, v2)
DeprecatedVisibleSameVersion(v, v2) == Equal(v, v2)
IntroducedVisibleInverted(v, v2) == LessThan(v, v2)

\* Expand, the switch on a pair (declaring version v, target version v2)
DeprecatedVisible(v, v2) == ~GreaterThan(v, v2)
IntroducedVisible(v, v2) == GreaterThan(v, v2)

IsDeprecated(c) == c.ChangeType = FieldDeprecated
IsIntroduced(c) == c.ChangeType = FieldIntroduced

\* a fault of Expand: the two cases add each other's change type
ChangesForSwapped(cl, v, v2) ==
    IF DeprecatedVisible(v, v2) THEN SelectSeq(cl[v], IsIntroduced)
    ELSE IF IntroducedVisible(v, v2) THEN SelectSeq(cl[v], IsDeprecated)
    ELSE <<>>

\* a fault of Expand: the type of a change is not looked at
ChangesForAll(cl, v, v2) == cl[v]

\* a fault of Expand: the changes of a version are added last to first
ChangesForReversed(cl, v, v2) ==
    LET cs == IF DeprecatedVisible(v, v2) THEN SelectSeq(cl[v], IsDeprecated)
              ELSE IF IntroducedVisible(v, v2) THEN SelectSeq(cl[v], IsIntroduced)
              ELSE <<>>
    IN [i \in 1..Len(cs) |-> cs[Len(cs) + 1 - i]]

\* Expand: the changes of cl[v] that are added to the tree of v2, in order
ChangesFor(cl, v, v2) ==
    IF DeprecatedVisible(v, v2) THEN SelectSeq(cl[v], IsDeprecated)
    ELSE IF IntroducedVisible(v, v2) THEN SelectSeq(cl[v], IsIntroduced)
    ELSE <<>>

\* Expand: the addChange calls <<v2, c>> of the two nested loops over the
\* sorted versions vs, from pair number k on (pairs are numbered row by row)
RECURSIVE ScheduleFrom(_, _, _)
ScheduleFrom(cl, vs, k) ==
    LET n == Len(vs)
    IN IF k > n * n THEN <<>>
       ELSE LET v  == vs[((k - 1) \div n) + 1]
                v2 == vs[((k - 1) % n) + 1]
                cs == ChangesFor(cl, v, v2)
            IN [i \in 1..Len(cs) |-> <<v2, cs[i]>>] \o ScheduleFrom(cl, vs, k + 1)

Schedule(cl) == ScheduleFrom(cl, SortVersions(DOMAIN cl), 1)

\* Expand: knownChanges before the loops
EmptyTrees(cl) == [v \in DOMAIN cl |-> EmptyMap]

\* one addChange(c, knownChanges[v2]) call
ApplyCall(kc, call) == [kc EXCEPT ![call[1]] = addChange(call[2], @)]

RECURSIVE ApplySchedule(_, _, _)
ApplySchedule(sched, k, kc) ==
    IF k > Len(sched) THEN kc
    ELSE ApplySchedule(sched, k + 1, ApplyCall(kc, sched[k]))

\* Changelog.Expand as a function of the changelog
Expand(cl) == ApplySchedule(Schedule(cl), 1, EmptyTrees(cl))

----------------------------------------------------------------------------
(* The linter *)

NilVersion == <<>>
NotFound == [c |-> ZeroChange, ok |-> FALSE]

\* the orders in which a range over a map with key set S may visit the keys
Orders(S) == {o \in [1..Cardinality(S) -> S] : \A i, j \in DOMAIN o : o[i] = o[j] => i = j}

\* a fault of changelogForVersion: the best match held so far is not compared
IsBetterMatchLast(ver, v, bestMatch) == GreaterThan(ver, v)

\* changelogForVersion: a better best match than the one held so far
IsBetterMatch(ver, v, bestMatch) ==
    GreaterThan(ver, v) /\ (bestMatch = NilVersion \/ GreaterThan(v, bestMatch))

\* changelogForVersion, the range over cl.expandedChangelog in the order given
RECURSIVE ChangelogForVersionFrom(_, _, _, _, _)
ChangelogForVersionFrom(ec, ver, order, i, bestMatch) ==
    IF i > Len(order)
    THEN (IF bestMatch = NilVersion THEN EmptyMap ELSE ec[bestMatch])
    ELSE LET v == order[i]
         IN IF Equal(ver, v) THEN ec[v]
            ELSE IF IsBetterMatch(ver, v, bestMatch)
                 THEN ChangelogForVersionFrom(ec, ver, order, i + 1, v)
            ELSE ChangelogForVersionFrom(ec, ver, order, i + 1, bestMatch)

changelogForVersion(ec, ver, order) == ChangelogForVersionFrom(ec, ver, order, 1, NilVersion)

\* a fault of findChange: a Change met anywhere on the path is returned
ChangeAppliesAnywhere(i, last) == TRUE

\* findChange: a Change met at index i of a path whose last index is last
ChangeApplies(i, last) == i = last

\* a fault of findChange: a field without an entry of its own is given up
HasEntryExact(curMap, field) == field \in DOMAIN curMap

\* findChange: curMap has an entry for the field, its own or the wildcard's
HasEntry(curMap, field) == field \in DOMAIN curMap \/ Star \in DOMAIN curMap

\* a fault of findChange: the wildcard's entry is looked up before the field's
EntryWildcardFirst(curMap, field) ==
    IF Star \in DOMAIN curMap THEN curMap[Star] ELSE curMap[field]

\* findChange: nextMap, the field's own entry or, without one, the wildcard's
Entry(curMap, field) ==
    IF field \in DOMAIN curMap THEN curMap[field] ELSE curMap[Star]

\* findChange, the loop over the path from index i in curMap
RECURSIVE FindChangeFrom(_, _, _)

\* a fault of findChange: when the way through the field's own entry yields no
\* change, the way through the wildcard's entry is tried
FindChangeFromBacktracking(curMap, path, i) ==
    IF i > Len(path) THEN NotFound
    ELSE LET through(key) ==
                 IF key \notin DOMAIN curMap THEN NotFound
                 ELSE IF curMap[key].isMap
                      THEN FindChangeFrom(curMap[key].m, path, i + 1)
                 ELSE IF ChangeApplies(i, Len(path))
                      THEN [c |-> curMap[key].c, ok |-> TRUE]
                 ELSE NotFound
         IN IF through(path[i]).ok THEN through(path[i]) ELSE through(Star)

FindChangeFrom(curMap, path, i) ==
    IF i > Len(path) THEN NotFound
    ELSE LET field == path[i]
         IN IF ~HasEntry(curMap, field) THEN NotFound
            ELSE LET nextMap == Entry(curMap, field)
                 IN IF nextMap.isMap THEN FindChangeFrom(nextMap.m, path, i + 1)
                    ELSE IF ChangeApplies(i, Len(path))
                         THEN [c |-> nextMap.c, ok |-> TRUE]
                    ELSE NotFound

findChange(ec, ver, path, order) ==
    FindChangeFrom(changelogForVersion(ec, ver, order), path, 1)

----------------------------------------------------------------------------
(* The changelogs, versions and paths the linter is exercised with *)

BoundedSeq(S, n) == UNION {[1..k -> S] : k \in 0..n}

CLVersions == {<<1, 0, 0>>, <<1, 1, 0>>, <<1, 2, 0>>}
LintVersions == CLVersions \cup {<<0, 9, 0>>, <<1, 12, 0>>}

\* the fields "a", "a.b", "a.*" and "a.*.c"
Fields == {<<"a">>, <<"a", ".", "b">>, <<"a", ".", "*">>,
           <<"a", ".", "*", ".", "c">>}

\* the paths a, a.b, a.c, a.b.c, a.c.c and b of decoded nodes
LintPaths == {<< <<"a">> >>, << <<"a">>, <<"b">> >>, << <<"a">>, <<"c">> >>,
              << <<"a">>, <<"b">>, <<"c">> >>, << <<"a">>, <<"c">>, <<"c">> >>,
              << <<"b">> >>}

\* a declaration <<version, field, change type>>
Declarations == CLVersions \X Fields \X {FieldDeprecated, FieldIntroduced}

\* The changelog with the versions K that declares ds, each change under its
\* version in the order of ds.  A message names the version and the place in
\* the version's list it was written for, as the messages of a changelog do.
MkChangelog(K, ds) ==
    [v \in K |->
        LET mine == SelectSeq(ds, LAMBDA d : d[1] = v)
        IN [i \in 1..Len(mine) |->
               [Field |-> mine[i][2], ChangeType |-> mine[i][3],
                Message |-> MkMessage("change", v, <<0, 0, 0>>, NoConstraint, i)]]]

Changelogs ==
    {MkChangelog(K, ds) :
        <<K, ds>> \in {kd \in (SUBSET CLVersions) \X BoundedSeq(Declarations, MaxChanges) :
                          \A i \in 1..Len(kd[2]) : kd[2][i][1] \in kd[1]}}

----------------------------------------------------------------------------
(* SpecLint: newConfigLinter(changelog), then findChange calls *)

\* a fault of Parse: the warnings are accumulated in the Parser and a call
\* starts with what the call before it left there
FreshCallKeeping(s) ==
    [stream |-> s, versionRead |-> 0, configRead |-> 0, version |-> NilVersion,
     parser |-> 0, perfectMatch |-> FALSE, configs |-> <<>>, warnings |-> warnings,
     pc |-> "AwaitingVersion", err |-> "nil", retConfigs |-> <<>>,
     retWarnings |-> <<>>, calls |-> <<>>, blocks |-> <<>>]

\* Parse: the locals of a call on the stream s as it enters the loop, its
\* buffer and decoders new, configs and warnings nil
FreshCall(s) ==
    [stream |-> s, versionRead |-> 0, configRead |-> 0, version |-> NilVersion,
     parser |-> 0, perfectMatch |-> FALSE, configs |-> <<>>, warnings |-> <<>>,
     pc |-> "AwaitingVersion", err |-> "nil", retConfigs |-> <<>>,
     retWarnings |-> <<>>, calls |-> <<>>, blocks |-> <<>>]

\* the locals of a call that was never made
NoCall ==
    [stream |-> <<>>, versionRead |-> 0, configRead |-> 0, version |-> NilVersion,
     parser |-> 0, perfectMatch |-> FALSE, configs |-> <<>>, warnings |-> <<>>,
     pc |-> "off", err |-> "nil", retConfigs |-> <<>>, retWarnings |-> <<>>,
     calls |-> <<>>, blocks |-> <<>>]

\* no second call
ReuseOff ==
    /\ todo = <<>>
    /\ phase = "off"
    /\ active = 1
    /\ other = NoCall
    /\ solo = <<>>
    /\ sorter = <<>>

ParseOff ==
    /\ configParsers = <<>>
    /\ latestVersion = <<0, 0, 0>>
    /\ stream = <<>>
    /\ versionRead = 0
    /\ configRead = 0
    /\ version = NilVersion
    /\ parser = 0
    /\ perfectMatch = FALSE
    /\ configs = <<>>
    /\ warnings = <<>>
    /\ pc = "off"
    /\ err = "nil"
    /\ retConfigs = <<>>
    /\ retWarnings = <<>>
    /\ calls = <<>>
    /\ blocks = <<>>

\* a nil yaml.DecoderHook
NilHook == "nil"

\* what MultiDecoderHook returns: nil, one of the hooks it was given, or a
\* function that ranges over the hooks it holds
NoHook == [kind |-> "nil", h |-> NilHook, over |-> <<>>]
TheHook(h) == [kind |-> "hook", h |-> h, over |-> <<>>]
Closure(hs) == [kind |-> "closure", h |-> NilHook, over |-> hs]

\* no decode with a composed hook
HooksOff ==
    /\ given = <<>>
    /\ composed = NoHook
    /\ hookDoc = <<>>
    /\ visited = 0
    /\ trace = <<>>
    /\ hpc = "off"

\* no Expand call has returned yet
NoPrior == [done |-> FALSE, trees |-> EmptyMap]

LintIdle ==
    /\ versions = <<>>
    /\ knownChanges = EmptyMap
    /\ step = 0
    /\ expandedChangelog = EmptyMap
    /\ lintVersion = <<0, 0, 0>>
    /\ lintPath = <<>>
    /\ lintTree = EmptyMap
    /\ lintResult = NotFound
    /\ linted = FALSE
    /\ prior = NoPrior

InitLint ==
    /\ changelog \in Changelogs
    /\ lpc = "new"
    /\ LintIdle
    /\ HooksOff
    /\ ParseOff
    /\ ReuseOff

\* Expand, up to the nested loops: the versions are sorted, every version
\* gets an empty tree
ExpandBegin ==
    /\ lpc = "new"
    /\ versions' \in SortedCollections(DOMAIN changelog)
    /\ knownChanges' = EmptyTrees(changelog)
    /\ step' = 0
    /\ lpc' = "expand"
    /\ UNCHANGED <<changelog, expandedChangelog, lintVersion, lintPath, lintTree,
                   lintResult, linted, prior>>
    /\ UNCHANGED parseVars
    /\ UNCHANGED hookVars
    /\ UNCHANGED <<reuseVars, sorter>>

\* Expand: the next addChange call of the nested loops
AddChangeStep ==
    /\ lpc = "expand"
    /\ step < Len(ScheduleFrom(changelog, versions, 1))
    /\ knownChanges' = ApplyCall(knownChanges, ScheduleFrom(changelog, versions, 1)[step + 1])
    /\ step' = step + 1
    /\ UNCHANGED <<changelog, versions, expandedChangelog, lpc, lintVersion, lintPath,
                   lintTree, lintResult, linted, prior>>
    /\ UNCHANGED parseVars
    /\ UNCHANGED hookVars
    /\ UNCHANGED <<reuseVars, sorter>>

\* Expand returns knownChanges, newConfigLinter stores it
ExpandReturn ==
    /\ lpc = "expand"
    /\ step = Len(ScheduleFrom(changelog, versions, 1))
    /\ expandedChangelog' = knownChanges
    /\ lpc' = "ready"
    /\ UNCHANGED <<changelog, versions, knownChanges, step, lintVersion, lintPath,
                   lintTree, lintResult, linted, prior>>
    /\ UNCHANGED parseVars
    /\ UNCHANGED hookVars
    /\ UNCHANGED <<reuseVars, sorter>>

\* findChange(version, path) on the constructed linter; the range over the
\* expanded changelog visits the versions in any order.  The call leaves the
\* linter as it was, so one call per behaviour reaches every result.
LintStep ==
    /\ lpc = "ready"
    /\ ~linted
    /\ \E ver \in LintVersions, path \in LintPaths,
          order \in Orders(DOMAIN expandedChangelog) :
          /\ lintVersion' = ver
          /\ lintPath' = path
          /\ lintTree' = changelogForVersion(expandedChangelog, ver, order)
          /\ lintResult' = findChange(expandedChangelog, ver, path, order)
    /\ linted' = TRUE
    /\ UNCHANGED <<changelog, versions, knownChanges, step, expandedChangelog, lpc, prior>>
    /\ UNCHANGED parseVars
    /\ UNCHANGED hookVars
    /\ UNCHANGED <<reuseVars, sorter>>

NextLint == ExpandBegin \/ AddChangeStep \/ ExpandReturn \/ LintStep

SpecLint == InitLint /\ [][NextLint]_vars

----------------------------------------------------------------------------
(* SpecExpand: Changelog.Expand is called twice on one changelog whose keys
   are pointers, two of which may point to equal versions *)

\* the keys: a fourth component tells a second pointer to a version 1.0.0
\* from the first; the comparisons of versions do not look at it
ExpandKeys == {<<1, 0, 0>>, <<1, 0, 0, 1>>, <<1, 1, 0>>}

\* the fields "a", "a.b" and "a.b.c"
ExpandFields == {<<"a">>, <<"a", ".", "b">>, <<"a", ".", "b", ".", "c">>}

\* every key may deprecate a field; the greatest version may introduce one
\* (an introduction at the least version reaches no tree)
ExpandDeclarations ==
    (ExpandKeys \X ExpandFields \X {FieldDeprecated})
        \cup ({<<1, 1, 0>>} \X ExpandFields \X {FieldIntroduced})

\* the greatest number of changes such a changelog declares
MaxExpandChanges == 3

ExpandChangelogs ==
    {MkChangelog(K, ds) :
        <<K, ds>> \in {kd \in (SUBSET ExpandKeys) \X BoundedSeq(ExpandDeclarations, MaxExpandChanges) :
                          \A i \in 1..Len(kd[2]) : kd[2][i][1] \in kd[1]}}

InitExpand ==
    /\ changelog \in ExpandChangelogs
    /\ lpc = "new"
    /\ LintIdle
    /\ HooksOff
    /\ ParseOff
    /\ ReuseOff

\* Expand has returned and is called once more on the same changelog: its
\* locals versions and knownChanges are new
ExpandAgain ==
    /\ lpc = "ready"
    /\ ~prior.done
    /\ prior' = [done |-> TRUE, trees |-> expandedChangelog]
    /\ versions' = <<>>
    /\ knownChanges' = EmptyMap
    /\ step' = 0
    /\ expandedChangelog' = EmptyMap
    /\ lpc' = "new"
    /\ UNCHANGED <<changelog, lintVersion, lintPath, lintTree, lintResult, linted>>
    /\ UNCHANGED parseVars
    /\ UNCHANGED hookVars
    /\ UNCHANGED <<reuseVars, sorter>>

NextExpand == ExpandBegin \/ AddChangeStep \/ ExpandReturn \/ ExpandAgain

SpecExpand == InitExpand /\ [][NextExpand]_vars


----------------------------------------------------------------------------
(* Vocabulary of the properties of expansion and lookup *)

\* the pairs <<V, c>>: change c is declared at version V of the changelog
Declared ==
    UNION {{<<V, changelog[V][i]>> : i \in DOMAIN changelog[V]} : V \in DOMAIN changelog}

\* a change declared at V belongs to the tree of target version T
AppliesTo(V, c, T) ==
    \/ c.ChangeType = FieldDeprecated /\ Compare(V, T) <= 0
    \/ c.ChangeType = FieldIntroduced /\ Compare(V, T) = 1

\* every Change stored anywhere in a field tree
RECURSIVE ChangesIn(_)
ChangesIn(m) ==
    UNION {IF m[t].isMap THEN ChangesIn(m[t].m) ELSE {m[t].c} : t \in DOMAIN m}

\* the tree m holds a terminal Change exactly at the path tokens
RECURSIVE TerminalAt(_, _)
TerminalAt(m, tokens) ==
    /\ tokens # <<>>
    /\ tokens[1] \in DOMAIN m
    /\ IF Len(tokens) = 1 THEN ~m[tokens[1]].isMap
       ELSE m[tokens[1]].isMap /\ TerminalAt(m[tokens[1]].m, Tail(tokens))

\* the tree m holds a terminal Change at the path tokens or above it
CoveredAt(m, tokens) ==
    \E n \in 1..Len(tokens) : TerminalAt(m, SubSeq(tokens, 1, n))

IsProperPrefix(s, t) == Len(s) < Len(t) /\ SubSeq(t, 1, Len(s)) = s

\* the field pattern tokens matches the path segment for segment
Matches(tokens, path) ==
    /\ Len(tokens) = Len(path)
    /\ \A i \in 1..Len(tokens) : tokens[i] = path[i] \/ tokens[i] = Star

Expanded == lpc = "ready"

\* C1: Expand returns exactly one field tree per version key of the changelog
\* (none for an empty changelog), and every Change stored anywhere in the tree
\* of a target version T, while it is built and when it is returned, is a
\* FieldDeprecated change declared at a version V <= T or a FieldIntroduced
\* change declared at a version V > T.
ExpandContract ==
    /\ lpc \in {"expand", "ready"} =>
          /\ DOMAIN knownChanges = DOMAIN changelog
          /\ \A T \in DOMAIN knownChanges : \A c \in ChangesIn(knownChanges[T]) :
                \E d \in Declared : d[2] = c /\ AppliesTo(d[1], c, T)
    /\ Expanded =>
          /\ DOMAIN expandedChangelog = DOMAIN changelog
          /\ expandedChangelog = knownChanges

\* a returned tree holds a deprecation declared at its own version next to an
\* introduction declared at a later one
ExpandContractWitness ==
    /\ Expanded
    /\ \E T \in DOMAIN expandedChangelog :
          \E c1, c2 \in ChangesIn(expandedChangelog[T]) :
             /\ IsDeprecated(c1) /\ c1.Message.ver = T
             /\ IsIntroduced(c2) /\ GreaterThan(c2.Message.ver, T)

\* the deprecations declared at or before V1, for versions V1 < V2 of the changelog
DeprecatedBefore ==
    {x \in (DOMAIN changelog) \X (DOMAIN changelog) \X Declared :
        /\ LessThan(x[1], x[2])
        /\ Compare(x[3][1], x[1]) <= 0
        /\ IsDeprecated(x[3][2])}

\* C2 as stated: every field deprecated at a version <= V1 is a terminal
\* Change at that field's own path in the tree of every later version V2.
ForwardPropagationExact ==
    Expanded =>
       \A x \in DeprecatedBefore :
          TerminalAt(expandedChangelog[x[2]], Split(x[3][2].Field))

\* C2, amended: every field deprecated at a version <= V1 is covered in the
\* tree of every later version V2, by a terminal Change at the field's own
\* path or at the path of one of its ancestors.
ForwardPropagation ==
    Expanded =>
       \A x \in DeprecatedBefore :
          CoveredAt(expandedChangelog[x[2]], Split(x[3][2].Field))

\* a deprecation is carried forward to a later tree under an ancestor's change
ForwardPropagationWitness ==
    /\ Expanded
    /\ \E x \in DeprecatedBefore :
          /\ CoveredAt(expandedChangelog[x[2]], Split(x[3][2].Field))
          /\ ~TerminalAt(expandedChangelog[x[2]], Split(x[3][2].Field))
    /\ \E x \in DeprecatedBefore :
          TerminalAt(expandedChangelog[x[2]], Split(x[3][2].Field))

\* the introductions declared after V2, for versions V1 < V2 of the changelog
IntroducedAfter ==
    {x \in (DOMAIN changelog) \X (DOMAIN changelog) \X Declared :
        /\ LessThan(x[1], x[2])
        /\ Compare(x[3][1], x[2]) = 1
        /\ IsIntroduced(x[3][2])}

\* C3 as stated: every field introduced at a version > V2 is a terminal
\* Change at that field's own path in the tree of every version V1 < V2.
BackwardPropagationExact ==
    Expanded =>
       \A x \in IntroducedAfter :
          TerminalAt(expandedChangelog[x[1]], Split(x[3][2].Field))

\* C3, amended: every field introduced at a version > V2 is covered in the
\* tree of every version V1 < V2, by a terminal Change at the field's own path
\* or at the path of one of its ancestors.
BackwardPropagation ==
    Expanded =>
       \A x \in IntroducedAfter :
          CoveredAt(expandedChangelog[x[1]], Split(x[3][2].Field))

\* an introduction is carried back to an earlier tree under an ancestor's change
BackwardPropagationWitness ==
    /\ Expanded
    /\ \E x \in IntroducedAfter :
          /\ CoveredAt(expandedChangelog[x[1]], Split(x[3][2].Field))
          /\ ~TerminalAt(expandedChangelog[x[1]], Split(x[3][2].Field))
    /\ \E x \in IntroducedAfter :
          TerminalAt(expandedChangelog[x[1]], Split(x[3][2].Field))


\* the last call linted, at a version V1 of the changelog, the path of a
\* field whose introduction is declared at a version <= V1
LintedIntroducedField ==
    /\ linted
    /\ lintVersion \in DOMAIN changelog
    /\ \E d \in Declared :
          /\ IsIntroduced(d[2])
          /\ Compare(d[1], lintVersion) <= 0
          /\ Split(d[2].Field) = lintPath

\* C4 as stated: linting, at a version V1 of the changelog, the path of a
\* field introduced at a version <= V1 returns no change.
IntroducedNotFlaggedExact ==
    LintedIntroducedField => ~lintResult.ok

\* C4, amended: linting, at a version V1 of the changelog, the path of a field
\* introduced at a version <= V1 returns no change, unless a change that
\* belongs to V1 (a deprecation declared at a version <= V1 or an introduction
\* declared at a version > V1) is registered on a field that matches the path:
\* then that other change is returned, never the introduction declared at a
\* version <= V1.
IntroducedNotFlagged ==
    LintedIntroducedField =>
       /\ lintResult.ok =>
             \E d \in Declared :
                /\ d[2] = lintResult.c
                /\ AppliesTo(d[1], d[2], lintVersion)
                /\ Matches(Split(d[2].Field), lintPath)
       /\ (\A d \in Declared :
              ~(AppliesTo(d[1], d[2], lintVersion) /\ Matches(Split(d[2].Field), lintPath)))
          => ~lintResult.ok

\* a field introduced at the linted version itself, alone on its path, is not flagged
IntroducedNotFlaggedWitness ==
    /\ LintedIntroducedField
    /\ ~lintResult.ok
    /\ \E d \in Declared :
          /\ IsIntroduced(d[2])
          /\ d[1] = lintVersion
          /\ Split(d[2].Field) = lintPath
    /\ expandedChangelog[lintVersion] # EmptyMap

\* the last call linted, at a version of the changelog, a path below the field
\* of change x[2], itself below the field of change x[1], both changes
\* belonging to that version
LintedBelowParentAndChild ==
    {x \in Declared \X Declared :
        /\ linted
        /\ lintVersion \in DOMAIN changelog
        /\ AppliesTo(x[1][1], x[1][2], lintVersion)
        /\ AppliesTo(x[2][1], x[2][2], lintVersion)
        /\ IsProperPrefix(Split(x[1][2].Field), Split(x[2][2].Field))
        /\ IsProperPrefix(Split(x[2][2].Field), lintPath)}

\* C5 as stated: with changes on a and a.b that both belong to the linted
\* version, linting a.b.c returns the change registered on a.
ParentGovernsSubtree ==
    \A x \in LintedBelowParentAndChild :
       lintResult.ok /\ lintResult.c.Field = x[1][2].Field

\* the last call linted, at a version of the changelog, a path that runs
\* through the field of a change belonging to that version
LintedBelow ==
    {d \in Declared :
        /\ linted
        /\ lintVersion \in DOMAIN changelog
        /\ AppliesTo(d[1], d[2], lintVersion)
        /\ IsProperPrefix(Split(d[2].Field), lintPath)}

\* C5, amended: with changes on a and a.b that both belong to the linted
\* version, linting a.b.c returns no change at all, neither the one on a.b nor
\* the one on a; in general a terminal Change reached before the lint path is
\* exhausted ends the walk without a change, and a change is only returned
\* for a path as long as its own field.
ParentPrecedenceLookup ==
    /\ \A x \in LintedBelowParentAndChild : ~lintResult.ok
    /\ LintedBelow # {} => ~lintResult.ok
    /\ (linted /\ lintResult.ok) => Len(Split(lintResult.c.Field)) = Len(lintPath)

\* a.b.c is linted at a version that has changes on a and on a.b
ParentPrecedenceLookupWitness ==
    /\ LintedBelowParentAndChild # {}
    /\ Len(lintPath) = 3
    /\ ~lintResult.ok
    /\ TerminalAt(expandedChangelog[lintVersion], SubSeq(lintPath, 1, 1))


----------------------------------------------------------------------------
(* Warnings *)

ZeroPosition == [Field |-> <<>>, Line |-> 0, Column |-> 0, Value |-> ""]

Warning(pos, msg) ==
    [Field |-> pos.Field, Line |-> pos.Line, Column |-> pos.Column,
     Value |-> pos.Value, Message |-> msg]

\* a fault of Parse: the warnings of a versioned parser are appended as returned
Unsorted(w) == {w}

\* Warnings.Sort is sort.Slice by Line, which promises an ascending result and
\* no more: every ascending arrangement of w is an outcome
SortOutcomes(w) ==
    {[i \in 1..Len(w) |-> w[o[i]]] :
        o \in {q \in Orders(1..Len(w)) :
                  \A i, j \in 1..Len(w) : i < j => ~(w[q[j]].Line < w[q[i]].Line)}}

\* Warnings.Sort on w: sort.Slice draws on nothing but its input, so that an
\* input it was given before is sorted the way it was then
Sort(w) == IF w \in DOMAIN sorter THEN {sorter[w]} ELSE SortOutcomes(w)

----------------------------------------------------------------------------
(* Versioned parsers (evolviyaml.Parser) *)

\* a semver constraint ">= lo.0.0, < hi.0.0"; "^1" is Caret(1)
Range(lo, hi) == [lo |-> lo, hi |-> hi]
Caret(major) == Range(major, major + 1)
Check(constraint, ver) ==
    /\ GreaterThanEqual(ver, <<constraint.lo, 0, 0>>)
    /\ LessThan(ver, <<constraint.hi, 0, 0>>)

\* evolviyaml.NewParser(constraint, changelog) for the document type schema
NewYamlParser(constraint, cl, schema) ==
    [constraint |-> constraint,
     latestKnownVersion |-> LET vs == SortVersions(DOMAIN cl) IN vs[Len(vs)],
     linter |-> Expand(cl),
     schema |-> schema]

LatestKnownVersion(p) == p.latestKnownVersion
Constraint(p) == p.constraint


\* configLinter.newWarning
newWarning(field, node, message) ==
    Warning([Field |-> field, Line |-> node.line, Column |-> node.column,
             Value |-> node.value], message)

\* configLinter.InspectNode; order is the order of the range over the
\* expanded changelog in this call
InspectNode(ec, ver, node, order) ==
    LET found == findChange(ec, ver, node.path, order)
    IN IF found.ok
       THEN [w |-> newWarning(node.path[Len(node.path)], node, found.c.Message), ok |-> TRUE]
       ELSE [w |-> Warning(ZeroPosition, NoMessage), ok |-> FALSE]

\* a fault of DecoderHook: what InspectNode returns is appended whether or not
\* it found a change
DecoderHookUnchecked(ec, ver, warn, node, order) ==
    Append(warn, InspectNode(ec, ver, node, order).w)

\* configLinter.DecoderHook, the hook called on a node: warn after the call
DecoderHook(ec, ver, warn, node, order) ==
    LET r == InspectNode(ec, ver, node, order)
    IN IF r.ok THEN Append(warn, r.w) ELSE warn

\* the decoder calls the hook on the nodes it visits, from node k on
RECURSIVE LintFrom(_, _, _, _, _, _)
LintFrom(ec, ver, nodes, orders, k, warn) ==
    IF k > Len(nodes) THEN warn
    ELSE LintFrom(ec, ver, nodes, orders, k + 1,
                  DecoderHook(ec, ver, warn, nodes[k], orders[k]))

\* ParseVersionedConfig: the warnings of the linter hook over the nodes the
\* decoder visits, node k being looked up with map order orders[k]
LintWarnings(ec, ver, nodes, orders, k) == LintFrom(ec, ver, nodes, orders, k, <<>>)

\* a fault of yamlTypeErrorToWarnings: one unknown-field error is enough
RecoverableAny(errors) == \E i \in 1..Len(errors) : errors[i].kind = "UnknownField"

\* yamlTypeErrorToWarnings: only unknown-field errors are tolerated
Recoverable(errors) == \A i \in 1..Len(errors) : errors[i].kind = "UnknownField"

yamlTypeErrorToWarnings(errors) ==
    IF Recoverable(errors)
    THEN [warn |-> [i \in 1..Len(errors) |->
                      Warning([Field |-> errors[i].field, Line |-> errors[i].line,
                               Column |-> errors[i].column, Value |-> ""],
                              MkMessage("field not found in type", <<0, 0, 0>>,
                                        <<0, 0, 0>>, NoConstraint, 0))],
          err |-> "nil"]
    ELSE [warn |-> <<>>, err |-> "TypeError"]

\* a fault of ParseVersionedConfig: the warnings are collected in the caller's
\* accumulator instead of one of the call's own
ParseVersionedConfigShared(p, body, ver, orders) ==
    LET warn == warnings \o LintWarnings(p.linter, ver, body.nodes, orders, 1)
        decoded == body.decode[p.schema]
        cfg == [schema |-> p.schema, payload |-> body.id,
                convertible |-> body.convertible[p.schema]]
    IN IF decoded.err = "nil" THEN [cfg |-> cfg, warn |-> warn, err |-> "nil"]
       ELSE IF decoded.err = "TypeError"
            THEN LET r == yamlTypeErrorToWarnings(decoded.errors)
                 IN IF r.err = "nil"
                    THEN [cfg |-> cfg, warn |-> warn \o r.warn, err |-> "nil"]
                    ELSE [cfg |-> <<>>, warn |-> <<>>, err |-> "decoding error"]
       ELSE [cfg |-> <<>>, warn |-> <<>>, err |-> "decoding error"]

\* ParseVersionedConfig of parser p on a document body.  decoded is what
\* dec.Decode reports for the parser's document type: no error, a
\* yaml.TypeError with its errors, or another error.
ParseVersionedConfig(p, body, ver, orders) ==
    LET warn == LintWarnings(p.linter, ver, body.nodes, orders, 1)
        decoded == body.decode[p.schema]
        cfg == [schema |-> p.schema, payload |-> body.id,
                convertible |-> body.convertible[p.schema]]
    IN IF decoded.err = "nil" THEN [cfg |-> cfg, warn |-> warn, err |-> "nil"]
       ELSE IF decoded.err = "TypeError"
            THEN LET r == yamlTypeErrorToWarnings(decoded.errors)
                 IN IF r.err = "nil"
                    THEN [cfg |-> cfg, warn |-> warn \o r.warn, err |-> "nil"]
                    ELSE [cfg |-> <<>>, warn |-> <<>>, err |-> "decoding error"]
       ELSE [cfg |-> <<>>, warn |-> <<>>, err |-> "decoding error"]

----------------------------------------------------------------------------
(* The dispatching parser (evolviconf.Parser) *)

\* a fault of NewParserExtended: the last parser's version is kept uncompared
NewParserLatestLast(ps) ==
    IF ps = <<>> THEN <<0, 0, 0>> ELSE LatestKnownVersion(ps[Len(ps)])

\* NewParserExtended: the greatest LatestKnownVersion, from 0.0.0 on
RECURSIVE LatestFrom(_, _, _)
LatestFrom(ps, i, latest) ==
    IF i > Len(ps) THEN latest
    ELSE IF GreaterThan(LatestKnownVersion(ps[i]), latest)
         THEN LatestFrom(ps, i + 1, LatestKnownVersion(ps[i]))
    ELSE LatestFrom(ps, i + 1, latest)

NewParserLatest(ps) == LatestFrom(ps, 1, <<0, 0, 0>>)

\* faults of findVersionedConfigParser: the constraint is not consulted, a
\* parser whose latest known version is the requested one is not perfect, a
\* parser as recent as the best match replaces it
EligibleAlways(p, ver) == TRUE
IsPerfectMatchStrict(p, ver) == GreaterThan(LatestKnownVersion(p), ver)
IsBetterParserOrEqual(ps, bestMatch, i) ==
    bestMatch = 0 \/ ~GreaterThan(LatestKnownVersion(ps[bestMatch]), LatestKnownVersion(ps[i]))

\* findVersionedConfigParser: the three tests of the loop body
Eligible(p, ver) == Check(Constraint(p), ver)
IsPerfectMatch(p, ver) == GreaterThanEqual(LatestKnownVersion(p), ver)
IsBetterParser(ps, bestMatch, i) ==
    bestMatch = 0 \/ LessThan(LatestKnownVersion(ps[bestMatch]), LatestKnownVersion(ps[i]))

\* findVersionedConfigParser: the loop over p.configParsers from index i, a
\* parser being named by its place in the list and nil by 0
RECURSIVE FindParserFrom(_, _, _, _)
FindParserFrom(ps, ver, i, bestMatch) ==
    IF i > Len(ps) THEN [parser |-> bestMatch, perfectMatch |-> FALSE]
    ELSE IF Eligible(ps[i], ver)
         THEN IF IsPerfectMatch(ps[i], ver) THEN [parser |-> i, perfectMatch |-> TRUE]
              ELSE IF IsBetterParser(ps, bestMatch, i)
                   THEN FindParserFrom(ps, ver, i + 1, i)
              ELSE FindParserFrom(ps, ver, i + 1, bestMatch)
    ELSE FindParserFrom(ps, ver, i + 1, bestMatch)

findVersionedConfigParser(ps, ver) == FindParserFrom(ps, ver, 1, 0)

\* parseVersion: the warning of the fallback to the latest known version
FallbackWarning(latest) ==
    Warning(ZeroPosition,
            MkMessage("no version defined, falling back to parser version", latest,
                      <<0, 0, 0>>, NoConstraint, 0))

\* a fault of Parse: every match is reported
NeedsMatchWarningAlways(perfect) == TRUE

\* Parse: a match that is not perfect is reported
NeedsMatchWarning(perfect) == ~perfect

MatchWarning(ver, p) ==
    Warning(ZeroPosition,
            MkMessage("no parser found for version, using parser for version with constraints",
                      ver, LatestKnownVersion(p), Constraint(p), 0))


----------------------------------------------------------------------------
(* The parsers and documents the dispatching parser is exercised with *)

\* the changelog of a first schema generation: a.* is deprecated from 1.0 on,
\* a.b is introduced in 1.1
V1Changelog ==
    MkChangelog({<<1, 0, 0>>, <<1, 1, 0>>},
                << <<<<1, 0, 0>>, <<"a", ".", "*">>, FieldDeprecated>>,
                   <<<<1, 1, 0>>, <<"a", ".", "b">>, FieldIntroduced>> >>)

\* the same schema generation known up to 1.0 only
V1OldChangelog ==
    MkChangelog({<<1, 0, 0>>},
                << <<<<1, 0, 0>>, <<"a", ".", "*">>, FieldDeprecated>> >>)

\* the changelog of a second schema generation: b is introduced in 2.2
V2Changelog ==
    MkChangelog({<<2, 0, 0>>, <<2, 2, 0>>},
                << <<<<2, 2, 0>>, <<"b">>, FieldIntroduced>> >>)

\* the changelog of a parser of the second schema generation that also takes
\* documents of the first: b is introduced in 2.2
WideChangelog ==
    MkChangelog({<<1, 0, 0>>, <<2, 2, 0>>},
                << <<<<2, 2, 0>>, <<"b">>, FieldIntroduced>> >>)

Registry ==
    [V1    |-> NewYamlParser(Caret(1), V1Changelog, "v1"),
     V1Old |-> NewYamlParser(Caret(1), V1OldChangelog, "v1"),
     V2    |-> NewYamlParser(Caret(2), V2Changelog, "v2"),
     Wide  |-> NewYamlParser(Range(1, 3), WideChangelog, "v2")]

ParserNames == DOMAIN Registry

Node(path, line) ==
    [path |-> path, line |-> line, column |-> 2 * Len(path) - 1,
     value |-> IF Len(path) = 1 THEN "" ELSE "x"]
Decoded(e, errors) == [err |-> e, errors |-> errors]
FieldError(kind, field, line) == [kind |-> kind, field |-> field, line |-> line, column |-> 1]

\* document bodies: the nodes the decoder visits, what dec.Decode reports
\* for each document type and whether ToConfig succeeds on the result
Bodies ==
    [plain |->
        [id |-> "plain",
         nodes |-> <<Node(<< <<"a">> >>, 2), Node(<< <<"a">>, <<"b">> >>, 3),
                     Node(<< <<"a">>, <<"c">> >>, 4)>>,
         decode |-> [v1 |-> Decoded("nil", <<>>), v2 |-> Decoded("nil", <<>>)],
         convertible |-> [v1 |-> TRUE, v2 |-> TRUE]],
     unknown |->
        [id |-> "unknown",
         nodes |-> <<Node(<< <<"a">> >>, 2), Node(<< <<"a">>, <<"c">> >>, 4),
                     Node(<< <<"b">> >>, 5)>>,
         decode |-> [v1 |-> Decoded("TypeError",
                                    <<FieldError("UnknownField", <<"x">>, 4),
                                      FieldError("UnknownField", <<"y">>, 1)>>),
                     v2 |-> Decoded("TypeError",
                                    <<FieldError("UnknownField", <<"x">>, 3),
                                      FieldError("InvalidType", <<"a">>, 2)>>)],
         convertible |-> [v1 |-> TRUE, v2 |-> TRUE]],
     broken |->
        [id |-> "broken",
         nodes |-> <<Node(<< <<"b">> >>, 2)>>,
         decode |-> [v1 |-> Decoded("nil", <<>>), v2 |-> Decoded("SyntaxError", <<>>)],
         convertible |-> [v1 |-> FALSE, v2 |-> TRUE]]]

\* what the version field of a document holds
Declares(v) == [kind |-> "version", v |-> v]
NoVersionField == [kind |-> "empty", v |-> NilVersion]
InvalidVersion == [kind |-> "invalid", v |-> NilVersion]

Doc(ver, body) == [ver |-> ver, body |-> body]

Docs ==
    {Doc(Declares(<<1, 0, 0>>), "plain"), Doc(Declares(<<1, 12, 0>>), "plain"),
     Doc(Declares(<<2, 0, 0>>), "plain"), Doc(NoVersionField, "plain"),
     Doc(InvalidVersion, "plain"), Doc(Declares(<<1, 0, 0>>), "unknown"),
     Doc(Declares(<<1, 0, 0>>), "broken")}

----------------------------------------------------------------------------
(* Spec: one call of Parser.Parse *)

\* p.configParsers as parser objects
Parsers == [i \in DOMAIN configParsers |-> Registry[configParsers[i]]]

Init ==
    /\ configParsers \in BoundedSeq(ParserNames, MaxParsers)
    /\ latestVersion = NewParserLatest([i \in DOMAIN configParsers |-> Registry[configParsers[i]]])
    /\ stream \in BoundedSeq(Docs, MaxDocs)
    /\ versionRead = 0
    /\ configRead = 0
    /\ version = NilVersion
    /\ parser = 0
    /\ perfectMatch = FALSE
    /\ configs = <<>>
    /\ warnings = <<>>
    /\ pc = "AwaitingVersion"
    /\ err = "nil"
    /\ retConfigs = <<>>
    /\ retWarnings = <<>>
    /\ calls = <<>>
    /\ blocks = <<>>
    /\ changelog = EmptyMap
    /\ lpc = "off"
    /\ LintIdle
    /\ HooksOff
    /\ ReuseOff

\* a fault of Parse: what was accumulated so far is returned next to the error
FailPartial(e) ==
    /\ pc' = "Fail"
    /\ err' = e
    /\ retConfigs' = configs
    /\ retWarnings' = warnings

\* return nil, nil, err
Fail(e) ==
    /\ pc' = "Fail"
    /\ err' = e
    /\ retConfigs' = <<>>
    /\ retWarnings' = <<>>

\* a fault of Parse: io.EOF does not break the loop, which reads on
EndOfInputMissed ==
    /\ pc = "AwaitingVersion"
    /\ versionRead = Len(stream)
    /\ UNCHANGED vars

\* versionDecoder finds the input at its end: io.EOF breaks the loop and
\* Parse returns what it accumulated
EndOfInput ==
    /\ pc = "AwaitingVersion"
    /\ versionRead = Len(stream)
    /\ version' = NilVersion
    /\ parser' = 0
    /\ perfectMatch' = FALSE
    /\ pc' = "Done"
    /\ err' = "nil"
    /\ retConfigs' = configs
    /\ retWarnings' = warnings
    /\ UNCHANGED <<configParsers, latestVersion, stream, versionRead,
                   configRead, configs, warnings, calls, blocks>>
    /\ UNCHANGED lintVars
    /\ UNCHANGED hookVars
    /\ UNCHANGED <<reuseVars, sorter>>

\* the reader fails while versionDecoder reads on: an error of parseVersion
\* that is neither ErrVersionNotSpecified nor io.EOF is fatal
ReadFailure ==
    /\ pc = "AwaitingVersion"
    /\ version' = NilVersion
    /\ parser' = 0
    /\ perfectMatch' = FALSE
    /\ Fail("failed to parse version: read error")
    /\ UNCHANGED <<configParsers, latestVersion, stream, versionRead,
                   configRead, configs, warnings, calls, blocks>>
    /\ UNCHANGED lintVars
    /\ UNCHANGED hookVars
    /\ UNCHANGED <<reuseVars, sorter>>

\* parseVersion on the next document of versionDecoder
\* a fault of Parse: once the version of a document is known the loop goes on
\* to the next document
AfterVersionSkipping == "AwaitingVersion"

\* Parse: parseVersion is followed by findVersionedConfigParser
AfterVersion == "FindParser"

ParseVersionStep ==
    /\ pc = "AwaitingVersion"
    /\ versionRead < Len(stream)
    /\ versionRead' = versionRead + 1
    /\ parser' = 0
    /\ perfectMatch' = FALSE
    /\ LET doc == stream[versionRead + 1]
       IN CASE doc.ver.kind = "empty" ->
                 /\ version' = latestVersion
                 /\ warnings' = warnings \o <<FallbackWarning(latestVersion)>>
                 /\ blocks' = Append(blocks, <<FallbackWarning(latestVersion)>>)
                 /\ pc' = AfterVersion
                 /\ UNCHANGED <<err, retConfigs, retWarnings>>
            [] doc.ver.kind = "invalid" ->
                 /\ version' = NilVersion
                 /\ Fail("failed to parse version: invalid version")
                 /\ UNCHANGED <<warnings, blocks>>
            [] OTHER ->
                 /\ version' = doc.ver.v
                 /\ blocks' = Append(blocks, <<>>)
                 /\ pc' = AfterVersion
                 /\ UNCHANGED <<warnings, err, retConfigs, retWarnings>>
    /\ UNCHANGED <<configParsers, latestVersion, stream, configRead,
                   configs, calls>>
    /\ UNCHANGED lintVars
    /\ UNCHANGED hookVars
    /\ UNCHANGED <<reuseVars, sorter>>

\* findVersionedConfigParser and the warning of a match that is not perfect
FindParserStep ==
    /\ pc = "FindParser"
    /\ LET found == findVersionedConfigParser(Parsers, version)
       IN /\ parser' = found.parser
          /\ perfectMatch' = found.perfectMatch
          /\ IF found.parser = 0
             THEN /\ Fail("unsupported version")
                  /\ UNCHANGED <<warnings, blocks>>
             ELSE /\ pc' = "Decoding"
                  /\ LET w == IF NeedsMatchWarning(found.perfectMatch)
                              THEN <<MatchWarning(version, Parsers[found.parser])>>
                              ELSE <<>>
                     IN /\ warnings' = warnings \o w
                        /\ blocks' = [blocks EXCEPT ![versionRead] = @ \o w]
                  /\ UNCHANGED <<err, retConfigs, retWarnings>>
    /\ UNCHANGED <<configParsers, latestVersion, stream, versionRead,
                   configRead, version, configs, calls>>
    /\ UNCHANGED lintVars
    /\ UNCHANGED hookVars
    /\ UNCHANGED <<reuseVars, sorter>>

\* ParseVersionedConfig of the chosen parser on the next document of
\* configurationDecoder, its warnings sorted and appended, then ToConfig
DecodeStep ==
    /\ pc = "Decoding"
    /\ configRead' = configRead + 1
    /\ LET p == Parsers[parser]
           body == Bodies[stream[configRead + 1].body]
       IN \E orders \in [1..Len(body.nodes) -> Orders(DOMAIN p.linter)] :
             LET r == ParseVersionedConfig(p, body, version, orders)
             IN /\ calls' = Append(calls, [doc |-> versionRead, parser |-> parser,
                                           version |-> version,
                                           perfectMatch |-> perfectMatch,
                                           warn |-> r.warn, err |-> r.err])
                /\ IF r.err # "nil"
                   THEN /\ Fail("failed to parse versioned config: " \o r.err)
                        /\ UNCHANGED <<warnings, blocks, configs, sorter>>
                   ELSE \E sorted \in Sort(r.warn) :
                           /\ sorter' = (r.warn :> sorted) @@ sorter
                           /\ warnings' = warnings \o sorted
                           /\ blocks' = [blocks EXCEPT ![versionRead] = @ \o sorted]
                           /\ IF r.cfg.convertible
                              THEN /\ configs' = Append(configs, r.cfg)
                                   /\ pc' = "AwaitingVersion"
                                   /\ UNCHANGED <<err, retConfigs, retWarnings>>
                              ELSE /\ Fail("failed to convert versioned config to actual config")
                                   /\ UNCHANGED configs
    /\ UNCHANGED <<configParsers, latestVersion, stream, versionRead,
                   version, parser, perfectMatch>>
    /\ UNCHANGED lintVars
    /\ UNCHANGED hookVars
    /\ UNCHANGED reuseVars

Next == EndOfInput \/ ReadFailure \/ ParseVersionStep \/ FindParserStep \/ DecodeStep

Spec == Init /\ [][Next]_vars

\* Parse runs on: a step of the loop that can be taken is taken.  That the
\* reader fails is up to the reader, and not assumed.
LoopStep == EndOfInput \/ ParseVersionStep \/ FindParserStep \/ DecodeStep

\* the registries the loop is run to its end with
LiveRegistries == {<<>>, <<"Wide">>, <<"V1", "V2">>, <<"V1Old", "V1">>}

InitLive == configParsers \in LiveRegistries /\ Init

SpecLive == InitLive /\ [][Next]_vars /\ WF_vars(LoopStep)

----------------------------------------------------------------------------
(* SpecHooks: MultiDecoderHook composes the hooks it is given and the decoder
   calls the result on every node it visits.  The hooks are EnvDecoderHook
   ("env"), the hook of the linter ("lint") and a hook of the user that marks
   the value of the node ("user"). *)

HookIds == {"env", "lint", "user"}

\* the greatest number of hooks passed to MultiDecoderHook
MaxHooks == 3

\* the nodes of the document decoded
HookNodes == <<[id |-> 1, value |-> "$X"], [id |-> 2, value |-> "y"]>>

\* os.ExpandEnv with X=x in the environment
ExpandEnv(value) == IF value = "$X" THEN "x" ELSE value

\* the call h(path, node) on node k of the document: what it does to the
\* node, and the record of the call
RunHook(h, k, st) ==
    LET value == st.doc[k].value
        after == IF h = "env" THEN ExpandEnv(value)
                 ELSE IF h = "user" THEN value \o "!"
                 ELSE value
    IN [doc |-> [st.doc EXCEPT ![k].value = after],
        trace |-> Append(st.trace, [hook |-> h, node |-> k, saw |-> value])]

\* slices.DeleteFunc(hooks, h == nil)
DeleteNil(hooks) == SelectSeq(hooks, LAMBDA h : h # NilHook)

RECURSIVE RunAll(_, _, _, _)

\* a fault of MultiDecoderHook: the hooks are called last to first
RunAllBackwards(hs, i, k, st) ==
    IF i > Len(hs) THEN st
    ELSE RunHook(hs[i], k, RunAll(hs, i + 1, k, st))

\* MultiDecoderHook, the returned function: for _, h := range hooks { h(path, node) }
RunAll(hs, i, k, st) ==
    IF i > Len(hs) THEN st
    ELSE RunAll(hs, i + 1, k, RunHook(hs[i], k, st))

MultiDecoderHook(hooks) ==
    LET hs == DeleteNil(hooks)
    IN IF Len(hs) = 0 THEN NoHook
       ELSE IF Len(hs) = 1 THEN TheHook(hs[1])
       ELSE Closure(hs)

\* the decoder calls its hook, if it has one, on node k
Invoke(hook, k, st) ==
    IF hook.kind = "nil" THEN st
    ELSE IF hook.kind = "hook" THEN RunHook(hook.h, k, st)
    ELSE RunAll(hook.over, 1, k, st)

InitHooks ==
    /\ given \in BoundedSeq(HookIds \cup {NilHook}, MaxHooks)
    /\ composed = NoHook
    /\ hookDoc = HookNodes
    /\ visited = 0
    /\ trace = <<>>
    /\ hpc = "new"
    /\ changelog = EmptyMap
    /\ lpc = "off"
    /\ LintIdle
    /\ ParseOff
    /\ ReuseOff

\* dec.WithHook(MultiDecoderHook(hooks...))
ComposeStep ==
    /\ hpc = "new"
    /\ composed' = MultiDecoderHook(given)
    /\ hpc' = "ready"
    /\ UNCHANGED <<given, hookDoc, visited, trace>>
    /\ UNCHANGED <<lintVars, parseVars, reuseVars, sorter>>

\* the decoder visits the next node
VisitStep ==
    /\ hpc = "ready"
    /\ visited < Len(hookDoc)
    /\ LET st == Invoke(composed, visited + 1, [doc |-> hookDoc, trace |-> trace])
       IN /\ hookDoc' = st.doc
          /\ trace' = st.trace
    /\ visited' = visited + 1
    /\ UNCHANGED <<given, composed, hpc>>
    /\ UNCHANGED <<lintVars, parseVars, reuseVars, sorter>>

NextHooks == ComposeStep \/ VisitStep

SpecHooks == InitHooks /\ [][NextHooks]_vars

----------------------------------------------------------------------------
(* Several calls of Parse on one Parser: the call on todo[1] alone, then the
   call on todo[2] alone, then both at once, their steps interleaved in any
   order. A call reads the Parser (configParsers, latestVersion, and through
   them the linters) and writes only its locals. *)

\* the documents of the streams given to the calls
ReuseDocs ==
    {Doc(Declares(<<1, 0, 0>>), "unknown"), Doc(Declares(<<1, 12, 0>>), "plain"),
     Doc(NoVersionField, "plain")}

\* the longest stream given to one of the calls
MaxReuseDocs == 1

ReuseStreams == BoundedSeq(ReuseDocs, MaxReuseDocs)

\* Parse: the locals of the running call
Locals ==
    [stream |-> stream, versionRead |-> versionRead, configRead |-> configRead,
     version |-> version, parser |-> parser, perfectMatch |-> perfectMatch,
     configs |-> configs, warnings |-> warnings, pc |-> pc, err |-> err,
     retConfigs |-> retConfigs, retWarnings |-> retWarnings, calls |-> calls,
     blocks |-> blocks]

\* the running call's locals become r
SetLocals(r) ==
    /\ stream' = r.stream
    /\ versionRead' = r.versionRead
    /\ configRead' = r.configRead
    /\ version' = r.version
    /\ parser' = r.parser
    /\ perfectMatch' = r.perfectMatch
    /\ configs' = r.configs
    /\ warnings' = r.warnings
    /\ pc' = r.pc
    /\ err' = r.err
    /\ retConfigs' = r.retConfigs
    /\ retWarnings' = r.retWarnings
    /\ calls' = r.calls
    /\ blocks' = r.blocks

\* what the call with the locals r returned
ResultOf(r) == [configs |-> r.retConfigs, warnings |-> r.retWarnings, err |-> r.err]

\* the call with the locals r has returned
ReturnedCall(r) == r.pc \in {"Done", "Fail"}

InitReuse ==
    /\ configParsers \in LiveRegistries
    /\ latestVersion = NewParserLatest([i \in DOMAIN configParsers |-> Registry[configParsers[i]]])
    /\ todo \in ReuseStreams \X ReuseStreams
    /\ phase = "first"
    /\ active = 1
    /\ other = NoCall
    /\ solo = <<>>
    /\ sorter = <<>>
    /\ stream = todo[1]
    /\ versionRead = 0
    /\ configRead = 0
    /\ version = NilVersion
    /\ parser = 0
    /\ perfectMatch = FALSE
    /\ configs = <<>>
    /\ warnings = <<>>
    /\ pc = "AwaitingVersion"
    /\ err = "nil"
    /\ retConfigs = <<>>
    /\ retWarnings = <<>>
    /\ calls = <<>>
    /\ blocks = <<>>
    /\ changelog = EmptyMap
    /\ lpc = "off"
    /\ LintIdle
    /\ HooksOff

\* the first call has returned: Parse is called again, on todo[2]
NextCall ==
    /\ phase = "first"
    /\ ReturnedCall(Locals)
    /\ solo' = Append(solo, ResultOf(Locals))
    /\ SetLocals(FreshCall(todo[2]))
    /\ phase' = "second"
    /\ UNCHANGED <<configParsers, latestVersion, todo, active, other, sorter>>
    /\ UNCHANGED lintVars
    /\ UNCHANGED hookVars

\* the second call has returned: Parse is called on todo[1] and on todo[2]
\* at once
StartBoth ==
    /\ phase = "second"
    /\ ReturnedCall(Locals)
    /\ solo' = Append(solo, ResultOf(Locals))
    /\ SetLocals(FreshCall(todo[1]))
    /\ other' = FreshCall(todo[2])
    /\ active' = 1
    /\ phase' = "both"
    /\ UNCHANGED <<configParsers, latestVersion, todo, sorter>>
    /\ UNCHANGED lintVars
    /\ UNCHANGED hookVars

\* a fault of Parse: the warnings are accumulated in the Parser, where both
\* calls append to them
SwitchSharedWarnings ==
    /\ phase = "both"
    /\ other' = Locals
    /\ SetLocals([other EXCEPT !.warnings = warnings])
    /\ active' = 3 - active
    /\ UNCHANGED <<configParsers, latestVersion, todo, phase, solo, sorter>>
    /\ UNCHANGED lintVars
    /\ UNCHANGED hookVars

\* the scheduler takes the running call off and puts the other call on: each
\* call keeps its own buffer, decoders, configs and warnings
Switch ==
    /\ phase = "both"
    /\ other' = Locals
    /\ SetLocals(other)
    /\ active' = 3 - active
    /\ UNCHANGED <<configParsers, latestVersion, todo, phase, solo, sorter>>
    /\ UNCHANGED lintVars
    /\ UNCHANGED hookVars

NextReuse ==
    \/ EndOfInput \/ ParseVersionStep \/ FindParserStep \/ DecodeStep
    \/ NextCall \/ StartBoth \/ Switch

SpecReuse == InitReuse /\ [][NextReuse]_vars


----------------------------------------------------------------------------
(* Vocabulary of the properties of the dispatching parser *)

LatestOf(i) == Registry[configParsers[i]].latestKnownVersion
ConstraintOf(i) == Registry[configParsers[i]].constraint

\* the registered parsers whose constraint accepts ver
Accepting(ver) ==
    {i \in DOMAIN configParsers :
        /\ Compare(ver, <<ConstraintOf(i).lo, 0, 0>>) >= 0
        /\ Compare(ver, <<ConstraintOf(i).hi, 0, 0>>) < 0}

\* those of them that know ver: their latest known version is not behind it
Covering(ver) == {i \in Accepting(ver) : Compare(LatestOf(i), ver) >= 0}

\* those of them with the greatest latest known version
MostRecent(ver) ==
    {i \in Accepting(ver) : \A j \in Accepting(ver) : Compare(LatestOf(j), LatestOf(i)) <= 0}

Least(S) == CHOOSE i \in S : \A j \in S : i <= j

\* the greatest latest known version of the registered parsers, 0.0.0 without any
GlobalLatest ==
    LET S == {LatestOf(i) : i \in DOMAIN configParsers} \cup {<<0, 0, 0>>}
    IN CHOOSE m \in S : \A x \in S : Compare(x, m) <= 0

\* the warnings of w whose message has the given text
WithText(w, text) == SelectSeq(w, LAMBDA x : x.Message.text = text)

MatchText == "no parser found for version, using parser for version with constraints"
FallbackText == "no version defined, falling back to parser version"

\* C6: the parser chosen for a version has a constraint that accepts it, for
\* the current document and for every ParseVersionedConfig call made; Parse
\* fails with "unsupported version", without a ParseVersionedConfig call for
\* that document, exactly when no registered parser's constraint accepts the
\* resolved version.
EligibleParserOnly ==
    /\ parser # 0 => parser \in Accepting(version)
    /\ \A k \in DOMAIN calls : calls[k].parser \in Accepting(calls[k].version)
    /\ (pc = "Fail" /\ err = "unsupported version") =>
          /\ Accepting(version) = {}
          /\ \A k \in DOMAIN calls : calls[k].doc # versionRead
    /\ (version # NilVersion /\ pc # "FindParser" /\ Accepting(version) = {}) =>
          (pc = "Fail" /\ err = "unsupported version")

\* a second document is refused as unsupported although parsers are
\* registered and the first document was parsed
EligibleParserOnlyWitness ==
    /\ pc = "Fail"
    /\ err = "unsupported version"
    /\ configParsers # <<>>
    /\ Len(calls) = 1
    /\ versionRead = 2

\* C7: when a registered parser accepts the version and knows it, the first
\* such parser in registration order is chosen, as a perfect match, whatever
\* accepting parsers that are behind the version precede it.
PerfectMatchFirst ==
    /\ (pc = "Decoding" /\ Covering(version) # {}) =>
          (parser = Least(Covering(version)) /\ perfectMatch)
    /\ \A k \in DOMAIN calls :
          Covering(calls[k].version) # {} =>
             /\ calls[k].parser = Least(Covering(calls[k].version))
             /\ calls[k].perfectMatch

\* the perfect match is chosen past an accepting parser that is behind
PerfectMatchFirstWitness ==
    /\ pc = "Decoding"
    /\ perfectMatch
    /\ \E j \in Accepting(version) \ Covering(version) : j < parser

\* C8: when parsers accept the version but none knows it, the chosen parser
\* is flagged as not perfect and is the accepting parser with the greatest
\* latest known version, the earliest registered among equals.
BestMatchGreatest ==
    /\ (pc = "Decoding" /\ Covering(version) = {}) =>
          (~perfectMatch /\ parser = Least(MostRecent(version)))
    /\ \A k \in DOMAIN calls :
          Covering(calls[k].version) = {} =>
             /\ ~calls[k].perfectMatch
             /\ calls[k].parser = Least(MostRecent(calls[k].version))

\* the best match is the first of two accepting parsers that are equally recent
BestMatchGreatestWitness ==
    /\ pc = "Decoding"
    /\ ~perfectMatch
    /\ \E j \in MostRecent(version) : j > parser


\* the warning a best match must leave: no position, and a message naming
\* the requested version, the parser's latest known version and its constraint
IsMatchWarningFor(w, ver, i) ==
    /\ w.Line = 0 /\ w.Column = 0 /\ w.Field = <<>> /\ w.Value = ""
    /\ w.Message.text = MatchText
    /\ w.Message.ver = ver
    /\ w.Message.latest = LatestOf(i)
    /\ w.Message.constraint = ConstraintOf(i)

\* the block of document doc holds one warning of a best match of parser i
\* for ver when no registered parser knows ver, and none otherwise
MatchReported(doc, ver, i) ==
    LET ws == WithText(blocks[doc], MatchText)
    IN IF Covering(ver) # {} THEN ws = <<>>
       ELSE Len(ws) = 1 /\ IsMatchWarningFor(ws[1], ver, i)

\* C9: for each document Parse appends exactly one warning without position
\* that names the requested version, the chosen parser's latest known
\* version and its constraint when the parser is only a best match, and none
\* when it is a perfect match; version 1.12.0 against the parsers "^1"
\* (latest 1.1.0) and "^2" selects the first and leaves exactly one warning.
MatchWarningOnce ==
    /\ pc = "Decoding" => MatchReported(versionRead, version, parser)
    /\ \A k \in DOMAIN calls :
          MatchReported(calls[k].doc, calls[k].version, calls[k].parser)
    /\ pc = "Done" =>
          Len(WithText(retWarnings, MatchText))
             = Cardinality({k \in DOMAIN calls : Covering(calls[k].version) = {}})
    /\ (pc = "Decoding" /\ configParsers = <<"V1", "V2">> /\ version = <<1, 12, 0>>) =>
          /\ parser = 1
          /\ WithText(blocks[versionRead], MatchText)
                = <<[Field |-> <<>>, Line |-> 0, Column |-> 0, Value |-> "",
                     Message |-> [text |-> MatchText, ver |-> <<1, 12, 0>>,
                                  latest |-> <<1, 1, 0>>, constraint |-> [lo |-> 1, hi |-> 2],
                                  idx |-> 0]]>>

\* 1.12.0 is parsed by "^1" before "^2" and a second document is a perfect
\* match: the call returns one warning of a best match
MatchWarningOnceWitness ==
    /\ pc = "Done"
    /\ configParsers = <<"V1", "V2">>
    /\ Len(calls) = 2
    /\ calls[1].version = <<1, 12, 0>> /\ calls[1].parser = 1
    /\ calls[2].perfectMatch
    /\ Len(WithText(retWarnings, MatchText)) = 1

\* the documents read so far that lack the version field
Unversioned == {k \in 1..versionRead : stream[k].ver.kind = "empty"}

\* C10: a document that lacks the version field is not rejected for it: its
\* version is resolved to the greatest latest known version of the
\* registered parsers, with which it is dispatched like a document that
\* declares that version (so it is refused as unsupported only if no
\* registered parser accepts that version), and it leaves exactly one
\* warning of the fallback, with zero line and column.
NoVersionFallback ==
    /\ latestVersion = GlobalLatest
    /\ \A k \in Unversioned :
          /\ k \in DOMAIN blocks
          /\ LET ws == WithText(blocks[k], FallbackText)
             IN /\ Len(ws) = 1
                /\ ws[1].Line = 0 /\ ws[1].Column = 0
                /\ ws[1].Message.ver = GlobalLatest
                /\ blocks[k][1] = ws[1]
          /\ \A c \in DOMAIN calls : calls[c].doc = k => calls[c].version = GlobalLatest
          /\ (k = versionRead /\ pc \in {"FindParser", "Decoding"}) => version = GlobalLatest
          /\ (k = versionRead /\ pc = "Fail") =>
                /\ err # "failed to parse version: invalid version"
                /\ err = "unsupported version" => Accepting(GlobalLatest) = {}
    /\ \A k \in (1..versionRead) \ Unversioned :
          k \in DOMAIN blocks => WithText(blocks[k], FallbackText) = <<>>
    /\ pc = "Done" =>
          Len(WithText(retWarnings, FallbackText)) = Cardinality(Unversioned)

\* a document without version is parsed by the second parser, which holds
\* the greatest latest known version, and the call returns its one warning
NoVersionFallbackWitness ==
    /\ pc = "Done"
    /\ Len(configParsers) = 2
    /\ LessThan(LatestOf(1), LatestOf(2))
    /\ \E k \in Unversioned :
          \E c \in DOMAIN calls :
             /\ calls[c].doc = k
             /\ calls[c].parser = 2
             /\ calls[c].version = LatestOf(2)
    /\ Len(WithText(retWarnings, FallbackText)) = 1
    /\ Len(retConfigs) = 2

----------------------------------------------------------------------------
(* Errors of Parse *)

\* the errors Parse returns
ParseErrors ==
    {"failed to parse version: read error",
     "failed to parse version: invalid version",
     "unsupported version",
     "failed to parse versioned config: decoding error",
     "failed to convert versioned config to actual config"}

\* C11: whenever Parse returns an error (a read error, an unparsable version,
\* an unsupported version, a decoding error that is not recoverable, a failure
\* of ToConfig), on whichever document, it returns no configs and no
\* warnings, those of the documents parsed before it included; and it returns
\* an error exactly when it fails.
NoPartialResults ==
    /\ pc = "Fail" => /\ err \in ParseErrors
                      /\ retConfigs = <<>>
                      /\ retWarnings = <<>>
    /\ pc # "Fail" => err = "nil"

\* ToConfig fails on the second document, after the first left a config and
\* warnings behind
NoPartialResultsWitness ==
    /\ pc = "Fail"
    /\ err = "failed to convert versioned config to actual config"
    /\ Len(configs) = 1
    /\ warnings # <<>>
    /\ versionRead = 2

----------------------------------------------------------------------------
(* The boundary between warnings and errors of ParseVersionedConfig *)

\* what dec.Decode reported to the k-th call of ParseVersionedConfig
DecodedBy(k) ==
    Bodies[stream[calls[k].doc].body].decode[Parsers[calls[k].parser].schema]

UnknownFieldText == "field not found in type"
ChangeText == "change"

\* the calls whose decoder reported structural errors, all of them unknown
\* fields, and those where it reported a structural error of another kind
RecoverableCalls ==
    {k \in DOMAIN calls :
        /\ DecodedBy(k).err = "TypeError"
        /\ \A i \in DOMAIN DecodedBy(k).errors : DecodedBy(k).errors[i].kind = "UnknownField"}
FatalCalls ==
    {k \in DOMAIN calls :
        /\ DecodedBy(k).err = "TypeError"
        /\ \E i \in DOMAIN DecodedBy(k).errors : DecodedBy(k).errors[i].kind # "UnknownField"}

\* C12: a call of ParseVersionedConfig whose structural errors are all
\* unknown-field errors succeeds and returns, after the warnings of the
\* linter, exactly one warning per unknown field, at the field's position; a
\* call with at least one structural error of another kind fails with a
\* decoding error and returns no warning at all, and Parse fails with it.
RecoverableBoundary ==
    /\ \A k \in RecoverableCalls :
          LET unknown == WithText(calls[k].warn, UnknownFieldText)
              errors == DecodedBy(k).errors
          IN /\ calls[k].err = "nil"
             /\ Len(unknown) = Len(errors)
             /\ \A i \in DOMAIN errors :
                   /\ unknown[i].Field = errors[i].field
                   /\ unknown[i].Line = errors[i].line
                   /\ unknown[i].Column = errors[i].column
             /\ calls[k].warn = WithText(calls[k].warn, ChangeText) \o unknown
    /\ \A k \in FatalCalls :
          /\ calls[k].err = "decoding error"
          /\ calls[k].warn = <<>>
          /\ k = Len(calls)
          /\ pc = "Fail"
          /\ err = "failed to parse versioned config: decoding error"

\* a document with one unknown field and one field of the wrong type, and
\* with a field the linter flags, fails and leaves no warning
RecoverableBoundaryWitness ==
    /\ FatalCalls # {}
    /\ \E k \in FatalCalls :
          /\ \E i \in DOMAIN DecodedBy(k).errors : DecodedBy(k).errors[i].kind = "UnknownField"
          /\ \E orders \in [1..3 -> Orders(DOMAIN Parsers[calls[k].parser].linter)] :
                LintWarnings(Parsers[calls[k].parser].linter, calls[k].version,
                             Bodies[stream[calls[k].doc].body].nodes, orders, 1) # <<>>
    /\ pc = "Fail"
    /\ retWarnings = <<>>

----------------------------------------------------------------------------
(* The results of a stream of documents *)

Elems(s) == {s[i] : i \in DOMAIN s}
Count(s, x) == Cardinality({i \in DOMAIN s : s[i] = x})
IsPermutation(a, b) ==
    /\ Len(a) = Len(b)
    /\ \A x \in Elems(a) \cup Elems(b) : Count(a, x) = Count(b, x)
Ascending(w) == \A i, j \in DOMAIN w : i < j => w[i].Line <= w[j].Line

RECURSIVE Flatten(_)
Flatten(bs) == IF bs = <<>> THEN <<>> ELSE Head(bs) \o Flatten(Tail(bs))

\* the warnings the dispatcher itself leaves for document k: the fallback
\* for a missing version, then the match that is not perfect
DispatcherWarnings(k) ==
    (IF stream[k].ver.kind = "empty" THEN <<FallbackWarning(GlobalLatest)>> ELSE <<>>)
    \o (IF calls[k].perfectMatch THEN <<>>
        ELSE <<Warning(ZeroPosition,
                       MkMessage(MatchText, calls[k].version, LatestOf(calls[k].parser),
                                 ConstraintOf(calls[k].parser), 0))>>)

\* C13: a successful Parse of a stream of n documents returns n configs in
\* the order of the input, and the returned warnings are the documents' own
\* blocks one after the other in document order; a block is the dispatcher's
\* warnings (fallback, then imperfect match) followed by the warnings the
\* versioned parser returned for that document, in ascending order of line;
\* nothing is sorted again across documents.
MultiDocumentOrder ==
    pc = "Done" =>
       /\ Len(retConfigs) = Len(stream)
       /\ Len(calls) = Len(stream)
       /\ Len(blocks) = Len(stream)
       /\ \A k \in DOMAIN stream :
             /\ calls[k].doc = k
             /\ retConfigs[k].payload = stream[k].body
             /\ retConfigs[k].schema = Registry[configParsers[calls[k].parser]].schema
             /\ LET d == Len(DispatcherWarnings(k))
                IN /\ Len(blocks[k]) = d + Len(calls[k].warn)
                   /\ SubSeq(blocks[k], 1, d) = DispatcherWarnings(k)
                   /\ IsPermutation(SubSeq(blocks[k], d + 1, Len(blocks[k])), calls[k].warn)
             /\ Ascending(blocks[k])
       /\ retWarnings = Flatten(blocks)

\* two documents are parsed and both leave warnings: the first those of the
\* dispatcher and of its parser, the second those of its parser, which did
\* not return them in order of line; the returned sequence as a whole is not
\* in order of line
MultiDocumentOrderWitness ==
    /\ pc = "Done"
    /\ Len(stream) = 2
    /\ calls[1].warn # <<>> /\ Len(blocks[1]) > Len(calls[1].warn)
    /\ ~Ascending(calls[2].warn)
    /\ ~Ascending(retWarnings)

----------------------------------------------------------------------------
(* Termination of the dispatch loop *)

Returned == pc \in {"Done", "Fail"}

\* what holds of a call that returned without error
DoneAtEndOfInput ==
    pc = "Done" =>
       /\ err = "nil"
       /\ versionRead = Len(stream) /\ configRead = Len(stream)
       /\ Len(calls) = Len(stream)
       /\ \A k \in DOMAIN calls : calls[k].doc = k
       /\ Len(retConfigs) = Len(stream)

\* C14: on a finite stream of n >= 0 documents Parse eventually returns; it
\* returns without error only from awaiting the version of the next document
\* with all n documents read, each handled exactly once, with n configs; the
\* end of the input is never an error, and an empty stream returns no config
\* and no error unless the reader fails.
DispatchTerminates ==
    /\ <>Returned
    /\ []DoneAtEndOfInput
    /\ [][pc' = "Done" => pc = "AwaitingVersion" /\ versionRead = Len(stream)]_vars
    /\ [][(pc = "AwaitingVersion" /\ pc' = "Fail" /\ versionRead' = versionRead)
            => err' = "failed to parse version: read error"]_vars
    /\ [][Returned => UNCHANGED vars]_vars

\* a stream of two documents was handled to its end
DispatchTerminatesWitness ==
    /\ pc = "Done"
    /\ Len(stream) = 2
    /\ Len(retConfigs) = 2
    /\ versionRead = 2

----------------------------------------------------------------------------
(* Resolution of the lint version *)

\* the registered versions below the linted one
LowerVersions == {v \in DOMAIN expandedChangelog : Compare(v, lintVersion) = -1}

\* the greatest of a set of versions
Greatest(S) == CHOOSE v \in S : \A w \in S : Compare(w, v) <= 0

\* C15: for a lint version V changelogForVersion resolves the tree
\* registered for V if there is one, otherwise the tree of the greatest
\* registered version below V, otherwise no tree, and then linting yields no
\* change; whatever the order in which the registered versions are visited.
BestMatchResolution ==
    linted =>
       /\ lintVersion \in DOMAIN expandedChangelog =>
             lintTree = expandedChangelog[lintVersion]
       /\ (lintVersion \notin DOMAIN expandedChangelog /\ LowerVersions # {}) =>
             lintTree = expandedChangelog[Greatest(LowerVersions)]
       /\ (lintVersion \notin DOMAIN expandedChangelog /\ LowerVersions = {}) =>
             lintTree = EmptyMap /\ ~lintResult.ok
       /\ lintResult.ok => lintResult.c \in ChangesIn(lintTree)

\* a version between two registered ones and above both is linted: the tree
\* of the greater of the two is resolved, which differs from the other's,
\* and a change is found in it
BestMatchResolutionWitness ==
    /\ linted
    /\ lintVersion \notin DOMAIN expandedChangelog
    /\ Cardinality(LowerVersions) = 2
    /\ lintTree = expandedChangelog[Greatest(LowerVersions)]
    /\ \E v \in LowerVersions : expandedChangelog[v] # lintTree
    /\ lintResult.ok

----------------------------------------------------------------------------
(* Wildcard matching *)

\* the changes declared on a field with a wildcard segment
WildcardChanges == {d \in Declared : \E i \in DOMAIN Split(d[2].Field) : Split(d[2].Field)[i] = Star}

\* the node the tree m holds at the path tokens, taken key by key
RECURSIVE NodeAt(_, _)
NodeAt(m, tokens) ==
    IF Len(tokens) = 1 THEN m[tokens[1]] ELSE NodeAt(m[tokens[1]].m, Tail(tokens))

\* the tree m holds the change c as a terminal Change at the path tokens
StoredAt(m, tokens, c) ==
    TerminalAt(m, tokens) /\ NodeAt(m, tokens).c = c

\* the map of the tree m in which the i-th of tokens is looked up
LevelAt(m, tokens, i) == IF i = 1 THEN m ELSE NodeAt(m, SubSeq(tokens, 1, i - 1)).m

\* no segment of the path has an entry of its own where tokens has a wildcard
OnlyWildcardEntry(m, tokens, path) ==
    \A i \in DOMAIN tokens :
       tokens[i] = Star => path[i] \notin DOMAIN LevelAt(m, tokens, i)

\* C16 as stated: a change on a field with a wildcard segment that belongs
\* to the linted version V is returned for every path that differs from the
\* field in the wildcard segment only.
WildcardMatchesEvery ==
    (linted /\ lintVersion \in DOMAIN changelog) =>
       \A d \in WildcardChanges :
          (AppliesTo(d[1], d[2], lintVersion) /\ Matches(Split(d[2].Field), lintPath))
             => lintResult = [c |-> d[2], ok |-> TRUE]

\* C16, amended: a change on a field with a wildcard segment that the tree of
\* the linted version holds at that field is returned for every path that
\* differs from the field in the wildcard segment only and whose segment at
\* the wildcard has no entry of its own at that level of the tree; all such
\* paths are matched alike.
WildcardMatching ==
    linted =>
       \A d \in WildcardChanges :
          (/\ StoredAt(lintTree, Split(d[2].Field), d[2])
           /\ Matches(Split(d[2].Field), lintPath)
           /\ OnlyWildcardEntry(lintTree, Split(d[2].Field), lintPath))
             => lintResult = [c |-> d[2], ok |-> TRUE]

\* a.c.c is matched by the change on a.*.c, in a tree that has an entry of
\* its own for a.b
WildcardMatchingWitness ==
    /\ linted
    /\ lintPath = << <<"a">>, <<"c">>, <<"c">> >>
    /\ lintResult.ok
    /\ Split(lintResult.c.Field) = << <<"a">>, Star, <<"c">> >>
    /\ TerminalAt(lintTree, << <<"a">>, <<"b">> >>)

----------------------------------------------------------------------------
(* Documents that give no reason for a warning *)

\* the changelogs the registered parsers were made from
ChangelogOf ==
    [V1 |-> V1Changelog, V1Old |-> V1OldChangelog, V2 |-> V2Changelog,
     Wide |-> WideChangelog]

\* the versions of changelog cl whose change profile holds for ver: ver
\* itself, or else the greatest version below it, if any
ProfileOf(cl, ver) ==
    IF ver \in DOMAIN cl THEN {ver}
    ELSE LET lower == {v \in DOMAIN cl : Compare(v, ver) = -1}
         IN {v \in lower : \A w \in lower : Compare(w, v) <= 0}

\* the changelog of the parser chosen for document k flags a field of it
Flagged(k) ==
    LET cl == ChangelogOf[configParsers[calls[k].parser]]
    IN \E T \in ProfileOf(cl, calls[k].version) :
          \E V \in DOMAIN cl : \E i \in DOMAIN cl[V] :
             /\ AppliesTo(V, cl[V][i], T)
             /\ \E n \in DOMAIN Bodies[stream[k].body].nodes :
                   Matches(Split(cl[V][i].Field), Bodies[stream[k].body].nodes[n].path)

\* the documents handed to a parser that have no unknown field and no field
\* the parser's changelog flags
CleanDocs == {k \in DOMAIN calls : DecodedBy(k).err = "nil" /\ ~Flagged(k)}

\* the canonical output of document k
Canonical(k) ==
    [schema |-> Registry[configParsers[calls[k].parser]].schema,
     payload |-> stream[k].body, convertible |-> TRUE]

\* C17 as stated: a document without unknown fields and without fields its
\* changelog flags leaves no warning at all.
RoundTripNoWarnings ==
    \A k \in CleanDocs : blocks[k] = <<>>

\* C17, amended: for a document without unknown fields and without fields
\* its changelog flags the versioned parser returns no warning, so that the
\* document leaves the dispatcher's own warnings only (the fallback for a
\* missing version, the match that is not perfect) and no warning at all
\* when it declares a version its parser knows; its config is the output of
\* ToConfig of the chosen schema.
RoundTrip ==
    \A k \in CleanDocs :
       /\ calls[k].err = "nil"
       /\ calls[k].warn = <<>>
       /\ blocks[k] = DispatcherWarnings(k)
       /\ (stream[k].ver.kind = "version" /\ Compare(stream[k].ver.v, LatestOf(calls[k].parser)) <= 0)
             => blocks[k] = <<>>
       /\ k \in DOMAIN configs => configs[k] = Canonical(k)
       /\ pc = "Done" => retConfigs[k] = Canonical(k)

\* the second of two documents has no unknown and no flagged field and
\* declares a version its parser knows: it leaves a config and no warning,
\* after a first document that left warnings
RoundTripWitness ==
    /\ pc = "Done"
    /\ Len(stream) = 2
    /\ 2 \in CleanDocs
    /\ stream[2].ver.kind = "version"
    /\ blocks[2] = <<>>
    /\ blocks[1] # <<>>
    /\ retWarnings = blocks[1]
    /\ retConfigs[2] = Canonical(2)

----------------------------------------------------------------------------
(* Warnings.Sort *)

\* w sorted by ascending line with ties in their order in w
RECURSIVE StableSorted(_)
StableSorted(w) ==
    IF w = <<>> THEN <<>>
    ELSE LET least == CHOOSE l \in {w[i].Line : i \in DOMAIN w} :
                         \A i \in DOMAIN w : l <= w[i].Line
         IN SelectSeq(w, LAMBDA x : x.Line = least)
            \o StableSorted(SelectSeq(w, LAMBDA x : x.Line # least))

\* what Sort returned for the warnings of the k-th call of a versioned parser
SortedBy(k) ==
    SubSeq(blocks[calls[k].doc], Len(blocks[calls[k].doc]) - Len(calls[k].warn) + 1,
           Len(blocks[calls[k].doc]))

\* the calls whose warnings Parse has sorted
SortedCalls == {k \in DOMAIN calls : calls[k].err = "nil"}

\* C20: Warnings.Sort returns a permutation of its input in ascending order
\* of line in which two warnings of equal line keep their order.
SortIsStable ==
    \A k \in SortedCalls :
       /\ IsPermutation(SortedBy(k), calls[k].warn)
       /\ Ascending(SortedBy(k))
       /\ SortedBy(k) = StableSorted(calls[k].warn)


----------------------------------------------------------------------------
(* Reuse of one Parser *)

\* the Parser is as NewParserExtended built it
ParserAsBuilt ==
    /\ configParsers \in LiveRegistries
    /\ latestVersion = NewParserLatest([i \in DOMAIN configParsers |-> Registry[configParsers[i]]])

\* the warnings w hold two warnings of one line
HasTie(w) == \E i, j \in DOMAIN w : i < j /\ w[i].Line = w[j].Line /\ w[i].Line > 0

SameAsAlone ==
    phase = "both" =>
        /\ ReturnedCall(Locals) => ResultOf(Locals) = solo[active]
        /\ ReturnedCall(other) => ResultOf(other) = solo[3 - active]

\* a step of the running call writes neither the Parser nor the other call's
\* locals
WritesOwnLocals ==
    (EndOfInput \/ ParseVersionStep \/ FindParserStep \/ DecodeStep) =>
        /\ other' = other
        /\ configParsers' = configParsers
        /\ latestVersion' = latestVersion

----------------------------------------------------------------------------
(* Two expansions of one changelog *)

\* both Expand calls have returned
ExpandedTwice == lpc = "ready" /\ prior.done

\* no two keys of the changelog compare equal
UniqueVersionKeys ==
    \A k1, k2 \in DOMAIN changelog : Equal(k1, k2) => k1 = k2

\* two declared changes on one field that both belong to the target version T
Collide(d1, d2, T) ==
    /\ d1 # d2
    /\ d1[2].Field = d2[2].Field
    /\ AppliesTo(d1[1], d1[2], T)
    /\ AppliesTo(d2[1], d2[2], T)

\* C21 as stated: two expansions of the same changelog return identical trees
\* for every version, whatever the order in which the range over the
\* changelog map yields its keys.
DeterministicExpansion ==
    ExpandedTwice => expandedChangelog = prior.trees

\* C21, amended: two expansions of the same changelog whose keys are pairwise
\* unequal versions return identical trees for every version, whatever the
\* order in which the range over the changelog map yields its keys.
DeterministicExpansionUniqueKeys ==
    (ExpandedTwice /\ UniqueVersionKeys) =>
        /\ expandedChangelog = prior.trees
        /\ DOMAIN expandedChangelog = DOMAIN changelog

\* a changelog of at least two unequal versions, with two changes that collide
\* in one tree, has been expanded twice
DeterministicExpansionWitness ==
    /\ ExpandedTwice
    /\ UniqueVersionKeys
    /\ Cardinality(DOMAIN changelog) >= 2
    /\ \E T \in DOMAIN changelog : \E d1, d2 \in Declared : Collide(d1, d2, T)
    /\ expandedChangelog = prior.trees


----------------------------------------------------------------------------
(* Insertion into a field tree *)

\* Expand: the addChange calls of the two loops, in order
Calls == ScheduleFrom(changelog, versions, 1)

\* the tree m holds a terminal Change at a proper ancestor of the path tokens
BlockedIn(m, tokens) ==
    \E n \in 1..(Len(tokens) - 1) : TerminalAt(m, SubSeq(tokens, 1, n))

\* the addChange call about to be made finds a terminal Change at a proper
\* ancestor of its field
NextCallBlocked ==
    /\ lpc = "expand"
    /\ step < Len(Calls)
    /\ BlockedIn(knownChanges[Calls[step + 1][1]], Split(Calls[step + 1][2].Field))

\* C22: an addChange call whose field has a proper ancestor that holds a
\* terminal Change in the target tree discards the new change and leaves the
\* tree (and every other tree) as it was.
InsertionPrecedence ==
    [][(NextCallBlocked /\ step' = step + 1) => knownChanges' = knownChanges]_vars

\* the last addChange call was made on a tree holding a terminal Change at a
\* proper ancestor of its field, and its change is not in the tree
InsertionPrecedenceWitness ==
    /\ lpc = "expand"
    /\ step > 0
    /\ BlockedIn(knownChanges[Calls[step][1]], Split(Calls[step][2].Field))
    /\ Calls[step][2] \notin ChangesIn(knownChanges[Calls[step][1]])
    /\ Len(Split(Calls[step][2].Field)) = 3


----------------------------------------------------------------------------
(* The walk of findChange *)

\* the ways to replace segments of the path by the wildcard
Routes(path) ==
    {tokens \in [1..Len(path) -> {path[i] : i \in 1..Len(path)} \cup {Star}] :
        \A i \in 1..Len(path) : tokens[i] \in {path[i], Star}}

\* the routes through the tree m that end on a terminal Change at the last
\* segment of the path and take the wildcard's entry only at a level without
\* an entry for the segment itself
ExactFirstRoutes(m, path) ==
    {tokens \in Routes(path) :
        /\ TerminalAt(m, tokens)
        /\ \A i \in 1..Len(path) :
              tokens[i] # path[i] => path[i] \notin DOMAIN LevelAt(m, tokens, i)}

\* C23: findChange walks the segments of the path in order, taking at each
\* level the entry of the segment's own name and the wildcard's entry only
\* when there is none; it returns the Change such a walk meets at the last
\* segment, and no change when at some level neither entry exists, when the
\* walk ends on a sub-tree, or when it meets a Change before the last segment.
LookupWalk ==
    linted =>
       IF ExactFirstRoutes(lintTree, lintPath) = {} THEN lintResult = NotFound
       ELSE \E tokens \in ExactFirstRoutes(lintTree, lintPath) :
               lintResult = [c |-> NodeAt(lintTree, tokens).c, ok |-> TRUE]

\* a.b is linted in a tree that holds a change on a.b next to one on a.*, and
\* the change on a.b is returned
LookupWalkWitness ==
    /\ linted
    /\ lintPath = << <<"a">>, <<"b">> >>
    /\ TerminalAt(lintTree, << <<"a">>, <<"b">> >>)
    /\ TerminalAt(lintTree, << <<"a">>, Star >>)
    /\ lintResult.ok
    /\ Split(lintResult.c.Field) = << <<"a">>, <<"b">> >>


\* the routes through the tree m that end on a terminal Change at the last
\* segment of the path and take the wildcard's entry at a level that has an
\* entry for the segment itself
ShadowedRoutes(m, path) ==
    {tokens \in Routes(path) :
        /\ TerminalAt(m, tokens)
        /\ \E i \in 1..Len(path) :
              tokens[i] # path[i] /\ path[i] \in DOMAIN LevelAt(m, tokens, i)}

\* C29: findChange does not backtrack: a Change that is reached only through
\* the wildcard's entry of a level that has an entry for the segment itself is
\* never returned, also when the way through the segment's own entry yields
\* no change.
NoBacktracking ==
    linted =>
       \A tokens \in ShadowedRoutes(lintTree, lintPath) :
          /\ lintResult # [c |-> NodeAt(lintTree, tokens).c, ok |-> TRUE]
          /\ ExactFirstRoutes(lintTree, lintPath) = {} => lintResult = NotFound

\* a.b.c is linted in a tree that holds a change on a.b and one on a.*.c: the
\* way through b ends on the change on a.b before the last segment, the way
\* through the wildcard would have led to a change, and none is returned
NoBacktrackingWitness ==
    /\ linted
    /\ lintPath = << <<"a">>, <<"b">>, <<"c">> >>
    /\ TerminalAt(lintTree, << <<"a">>, <<"b">> >>)
    /\ TerminalAt(lintTree, << <<"a">>, Star, <<"c">> >>)
    /\ lintResult = NotFound


----------------------------------------------------------------------------
(* The tree of the greatest version *)

\* the keys of the changelog that no key is greater than
GreatestKeys == {v \in DOMAIN changelog : \A w \in DOMAIN changelog : ~GreaterThan(w, v)}

\* the last call linted at a version that no key of the changelog is greater than
LintedAtLatest ==
    /\ linted
    /\ DOMAIN changelog # {}
    /\ \A w \in DOMAIN changelog : GreaterThanEqual(lintVersion, w)

\* C30: the tree of the greatest version of a changelog holds FieldDeprecated
\* changes only, and linting a path at a version greater than or equal to the
\* greatest version of the changelog never returns a FieldIntroduced change.
LatestTreeDeprecatedOnly ==
    /\ lpc \in {"expand", "ready"} =>
          \A v \in GreatestKeys : \A c \in ChangesIn(knownChanges[v]) : IsDeprecated(c)
    /\ LintedAtLatest =>
          /\ \A c \in ChangesIn(lintTree) : IsDeprecated(c)
          /\ lintResult.ok => IsDeprecated(lintResult.c)

\* a path whose field the changelog both deprecates and introduces is linted
\* above the greatest version, and the deprecation is returned
LatestTreeDeprecatedOnlyWitness ==
    /\ LintedAtLatest
    /\ GreaterThan(lintVersion, <<1, 2, 0>>)
    /\ lintResult.ok
    /\ IsDeprecated(lintResult.c)
    /\ \E d \in Declared :
          /\ IsIntroduced(d[2])
          /\ d[1] \in GreatestKeys
          /\ Split(d[2].Field) = lintPath


----------------------------------------------------------------------------
(* The warnings of the linter hook *)

\* the tree of the expanded changelog ec that holds for the version ver: its
\* own, else that of the greatest version below it, else none
TreeFor(ec, ver) ==
    IF ver \in DOMAIN ec THEN ec[ver]
    ELSE LET lower == {v \in DOMAIN ec : Compare(v, ver) = -1}
         IN IF lower = {} THEN EmptyMap ELSE ec[Greatest(lower)]

\* the tree document k was linted against
TreeOfCall(k) == TreeFor(Parsers[calls[k].parser].linter, calls[k].version)

\* the nodes of document k, in the order visited
NodesOf(k) == Bodies[stream[k].body].nodes

\* the nodes of document k for which the tree holds a change
Hits(k) ==
    LET tree == TreeOfCall(k)
    IN SelectSeq(NodesOf(k), LAMBDA n : ExactFirstRoutes(tree, n.path) # {})

\* the unknown-field errors of the decode of document k
UnknownFieldsOf(k) ==
    SelectSeq(DecodedBy(k).errors, LAMBDA e : e.kind = "UnknownField")

\* C24: over the nodes visited in the decode of a document the linter hook
\* appends one Warning for each node whose path has a change in the tree of
\* the document's version and none for any other node; the Warning carries
\* the message of that Change, the last segment of the path as field, and the
\* line, column and value of the node.
LintPackaging ==
    \A k \in DOMAIN calls :
       calls[k].err = "nil" =>
          LET tree == TreeOfCall(k)
              hits == Hits(k)
          IN /\ Len(calls[k].warn) = Len(hits) + Len(UnknownFieldsOf(k))
             /\ \A i \in 1..Len(hits) :
                   \E tokens \in ExactFirstRoutes(tree, hits[i].path) :
                      calls[k].warn[i] =
                         [Field |-> hits[i].path[Len(hits[i].path)],
                          Line |-> hits[i].line,
                          Column |-> hits[i].column,
                          Value |-> hits[i].value,
                          Message |-> NodeAt(tree, tokens).c.Message]

\* a document was decoded in which a nested node got a warning and another
\* node got none
LintPackagingWitness ==
    \E k \in DOMAIN calls :
       /\ calls[k].err = "nil"
       /\ Len(Hits(k)) >= 1
       /\ Len(Hits(k)) < Len(NodesOf(k))
       /\ \E i \in 1..Len(Hits(k)) :
             /\ Len(Hits(k)[i].path) = 2
             /\ calls[k].warn[i].Field = Hits(k)[i].path[2]
             /\ calls[k].warn[i].Value = "x"


----------------------------------------------------------------------------
(* Composed hooks *)

\* the places of the hooks given that are not nil
Live == {i \in DOMAIN given : given[i] # NilHook}

\* the calls made on node k, in the order made
CallsOn(k) == SelectSeq(trace, LAMBDA c : c.node = k)

\* the number of places before place i that hold a hook
Before(i) == Cardinality({j \in Live : j < i})

\* what the hooks at the places 1..i make of the value of node k, applied
\* first to last
RECURSIVE ValueAfter(_, _)
ValueAfter(k, i) ==
    IF i = 0 THEN HookNodes[k].value
    ELSE LET v == ValueAfter(k, i - 1)
         IN IF given[i] = "env" THEN ExpandEnv(v)
            ELSE IF given[i] = "user" THEN v \o "!"
            ELSE v

\* C25: the hook MultiDecoderHook returns calls every non-nil hook exactly
\* once per node, in the order the hooks were given and on the same node, so
\* that a hook finds the node as the hooks before it left it; nil hooks are
\* skipped, no hook gives nil and a single hook is returned itself; with the
\* user's hook given before the linter's, the user's hook runs before the
\* linter's on every node.
HookComposition ==
    hpc = "ready" =>
       /\ composed.kind = "nil" <=> Live = {}
       /\ Cardinality(Live) = 1 => \E i \in Live : composed = TheHook(given[i])
       /\ \A i \in 1..Len(trace) - 1 : trace[i].node <= trace[i + 1].node
       /\ \A c \in {trace[i] : i \in DOMAIN trace} : c.node <= visited
       /\ \A k \in 1..visited :
             /\ Len(CallsOn(k)) = Cardinality(Live)
             /\ \A i \in Live :
                   /\ CallsOn(k)[Before(i) + 1].hook = given[i]
                   /\ CallsOn(k)[Before(i) + 1].saw = ValueAfter(k, i - 1)

\* the user's hook EnvDecoderHook and the linter's hook were given, after a
\* nil hook, and both nodes were visited: the linter saw the expanded value
HookCompositionWitness ==
    /\ hpc = "ready"
    /\ given = <<NilHook, "env", "lint">>
    /\ visited = 2
    /\ Len(trace) = 4
    /\ trace[2] = [hook |-> "lint", node |-> 1, saw |-> "x"]


----------------------------------------------------------------------------
(* The two decoders of Parse *)

\* where the two decoders stand: versionDecoder is at most one document ahead
\* of configurationDecoder, which has nothing to read that versionDecoder has
\* not drawn into the buffer
DecodersInStep ==
    pc # "off" =>
       /\ configRead <= versionRead
       /\ versionRead <= configRead + 1
       /\ versionRead <= Len(stream)
       /\ pc = "AwaitingVersion" => configRead = versionRead
       /\ pc \in {"FindParser", "Decoding"} =>
             /\ versionRead = configRead + 1
             /\ version # NilVersion
       /\ pc = "Decoding" => parser \in DOMAIN configParsers
       /\ pc = "Done" => configRead = versionRead /\ versionRead = Len(stream)
       /\ Len(calls) = configRead

\* configurationDecoder reads document k only in the decode that follows the
\* choice of a parser for document k
ConfigReadInTurn ==
    configRead' # configRead =>
       /\ pc = "Decoding"
       /\ parser \in DOMAIN configParsers
       /\ version # NilVersion
       /\ configRead' = versionRead
       /\ versionRead' = versionRead

\* versionDecoder reads document k + 1 only when document k has been decoded
VersionReadInTurn ==
    versionRead' # versionRead =>
       /\ pc = "AwaitingVersion"
       /\ configRead = versionRead
       /\ versionRead' = versionRead + 1
       /\ configRead' = configRead

\* C26: in every run of Parse the full decode of document k starts only after
\* the version of document k has been resolved and a parser chosen, and is
\* complete before the version of document k+1 is read; versionDecoder is
\* never more than one document ahead of configurationDecoder, and
\* configurationDecoder never reads a document that versionDecoder has not
\* drawn from the input into the buffer.
ReadersInOrder ==
    /\ []DecodersInStep
    /\ [][ConfigReadInTurn]_vars
    /\ [][VersionReadInTurn]_vars

\* the second document is about to be decoded, its version resolved and its
\* parser chosen, the first document decoded
ReadersInOrderWitness ==
    /\ pc = "Decoding"
    /\ versionRead = 2
    /\ configRead = 1
    /\ Len(calls) = 1
    /\ Len(configs) = 1


----------------------------------------------------------------------------
(* Parent precedence in the expanded trees *)

\* the target versions with two declared changes that both belong to them, the
\* field of the first a proper ancestor of the field of the second
ParentAndChild ==
    {x \in (DOMAIN changelog) \X Declared \X Declared :
        /\ AppliesTo(x[2][1], x[2][2], x[1])
        /\ AppliesTo(x[3][1], x[3][2], x[1])
        /\ IsProperPrefix(Split(x[2][2].Field), Split(x[3][2].Field))}

\* a declared change on a proper ancestor of the field of d belongs to T
HasAncestor(d, T) ==
    \E d0 \in Declared :
       /\ AppliesTo(d0[1], d0[2], T)
       /\ IsProperPrefix(Split(d0[2].Field), Split(d[2].Field))

\* no Change of the tree m lies below another
NoChangeBelowChange(m) ==
    \A c1, c2 \in ChangesIn(m) : ~IsProperPrefix(Split(c1.Field), Split(c2.Field))

\* C27 as stated: no terminal Change lies below another in a tree Expand
\* returns, and when a change on a field and a change on one of its
\* descendants both belong to a target version, the tree holds a Change at
\* the ancestor's field and not the descendant's change, whichever was
\* inserted first.
ParentPrecedenceExact ==
    Expanded =>
       /\ \A T \in DOMAIN expandedChangelog : NoChangeBelowChange(expandedChangelog[T])
       /\ \A x \in ParentAndChild :
             /\ TerminalAt(expandedChangelog[x[1]], Split(x[2][2].Field))
             /\ x[3][2] \notin ChangesIn(expandedChangelog[x[1]])

\* C27, amended: no terminal Change lies below another in a tree Expand
\* returns, and when a change on a field and a change on one of its
\* descendants both belong to a target version, the tree does not hold the
\* descendant's change and holds a Change at the ancestor's field, unless the
\* ancestor's field itself lies below the field of a change that belongs to
\* that version: then the tree holds a Change at the topmost such field and
\* none below it; whichever was inserted first.
ParentPrecedence ==
    Expanded =>
       /\ \A T \in DOMAIN expandedChangelog : NoChangeBelowChange(expandedChangelog[T])
       /\ \A x \in ParentAndChild :
             /\ x[3][2] \notin ChangesIn(expandedChangelog[x[1]])
             /\ CoveredAt(expandedChangelog[x[1]], Split(x[2][2].Field))
             /\ ~HasAncestor(x[2], x[1]) =>
                   TerminalAt(expandedChangelog[x[1]], Split(x[2][2].Field))

\* a tree holds the change of a parent that was inserted after the change of
\* a child, and another tree dropped a child inserted after its parent
ParentPrecedenceWitness ==
    /\ Expanded
    /\ \E x \in ParentAndChild :
          /\ LessThan(x[3][1], x[2][1])
          /\ StoredAt(expandedChangelog[x[1]], Split(x[2][2].Field), x[2][2])
    /\ \E x \in ParentAndChild :
          /\ LessThan(x[2][1], x[3][1])
          /\ StoredAt(expandedChangelog[x[1]], Split(x[2][2].Field), x[2][2])


----------------------------------------------------------------------------
(* Changes on one field in one tree *)

\* the declaration d1 comes before d2: at a lesser version, or earlier in the
\* list of the same key
ComesBefore(d1, d2) ==
    \/ LessThan(d1[1], d2[1])
    \/ d1[1] = d2[1] /\ d1[2].Message.idx < d2[2].Message.idx

\* the target versions with two declared changes on one field that both belong
\* to them, the first coming before the second
Collisions ==
    {x \in (DOMAIN changelog) \X Declared \X Declared :
        Collide(x[2], x[3], x[1]) /\ ComesBefore(x[2], x[3])}

\* the tree m holds at the field of d2 a change on that field that does not
\* come before d2
HoldsLatest(m, d2) ==
    /\ TerminalAt(m, Split(d2[2].Field))
    /\ \E d \in Declared :
          /\ d[2] = NodeAt(m, Split(d2[2].Field)).c
          /\ d[2].Field = d2[2].Field
          /\ ~ComesBefore(d, d2)

\* C28 as stated: when two changes on the same field both belong to a target
\* version, the tree of that version holds at the field the one declared at
\* the greater version and, of two in the list of one version, the later.
SamePathLatestWins ==
    Expanded =>
       \A x \in Collisions :
          /\ x[2][2] \notin ChangesIn(expandedChangelog[x[1]])
          /\ HoldsLatest(expandedChangelog[x[1]], x[3])

\* C28, amended: when two changes on the same field both belong to a target
\* version and no change on an ancestor of the field belongs to it, the tree
\* of that version holds at the field the one declared at the greater version
\* and, of two in the list of one version, the later; when a change on an
\* ancestor of the field belongs to the version, the tree holds neither.
SamePathCollisions ==
    Expanded =>
       \A x \in Collisions :
          /\ x[2][2] \notin ChangesIn(expandedChangelog[x[1]])
          /\ IF HasAncestor(x[3], x[1])
             THEN x[3][2] \notin ChangesIn(expandedChangelog[x[1]])
             ELSE HoldsLatest(expandedChangelog[x[1]], x[3])

\* a tree holds the later of two changes on a field declared at different
\* versions, and a tree holds the later of two from the list of one version
SamePathCollisionsWitness ==
    /\ Expanded
    /\ \E x \in Collisions :
          /\ LessThan(x[2][1], x[3][1])
          /\ StoredAt(expandedChangelog[x[1]], Split(x[3][2].Field), x[3][2])
    /\ \E x \in Collisions :
          /\ x[2][1] = x[3][1]
          /\ StoredAt(expandedChangelog[x[1]], Split(x[3][2].Field), x[3][2])

====
